---- MODULE Spec2Model ----
(***************************************************************************)
(* Verification model of dbx-genie-rx (Genie Space analyzer).              *)
(*                                                                         *)
(* Three specifications share this module:                                 *)
(*   SpecAnalyze  GenieSpaceAnalyzer.analyze_section as a function of the  *)
(*                registry items, the section data and the LLM reply       *)
(*   SpecSession  the analyzer singleton's session id under concurrent     *)
(*                predict / predict_streaming / /analyze/all runs          *)
(*   SpecMerge    GenieSpaceOptimizer.merge_config on a heap of mutable    *)
(*                dicts and lists                                          *)
(*   SpecNormalize, ...  one specification per function studied on its own *)
(*                (variable `call`): the argument is drawn in Init and the *)
(*                actions apply the function                               *)
(* Each specification leaves the other specifications' variables idle.     *)
(***************************************************************************)
EXTENDS Integers, Sequences, FiniteSets, TLC

VARIABLES
    \* ---- SpecAnalyze: one call of analyze_section ----
    registry,       \* get_checklist_items_for_section(section_name): seq of items
    section_data,   \* "None" or "configured" (the section_data argument)
    reply,          \* what the serving endpoint answers if it is called
    result,         \* what analyze_section produced: nothing yet, an analysis, an error
    llm_calls,      \* number of call_serving_endpoint calls made by the call
    \* ---- SpecSession: the analyzer singleton and the runs using it ----
    session_id,     \* GenieSpaceAnalyzer._session_id (NoSession = None)
    run,            \* per run: kind, position, what it has observed and emitted
    \* ---- SpecMerge: merge_config on a heap ----
    heap,           \* the Python heap: a sequence of dict and list objects, by address
    merge,          \* merge_config's call: position, arguments, locals
    \* ---- specifications of single functions ----
    call            \* the function under study: its argument and what it returned

analyzeVars == <<registry, section_data, reply, result, llm_calls>>
sessionVars == <<session_id, run>>
mergeVars   == <<heap, merge>>
callVars    == <<call>>
vars        == <<analyzeVars, sessionVars, mergeVars, callVars>>

\* GenieSpaceAnalyzer._session_id = None (session ids are 1, 2, ...)
NoSession == 0

\* Python's None, where it stands for an absent string
None == "<None>"

\* Sequences over S of length at most n
SeqsUpTo(S, n) == UNION {[1..k -> S] : k \in 0..n}

\* dict.get(key, default) on a mapping modelled as a function with a string domain
Get(d, k, default) == IF k \in DOMAIN d THEN d[k] ELSE default

(***************************************************************************)
(* Bounds of SpecAnalyze                                                   *)
(***************************************************************************)
\* largest number of checklist items the registry holds for the section
MaxItems == 4
\* largest number of entries in the reply's `evaluations` list
MaxEvals == 2

(***************************************************************************)
(* Checklist registry and the values an LLM reply is drawn from            *)
(***************************************************************************)
\* slugify(description) of the k-th checklist item of the section
slugify(k) == <<"item", k>>

Description(k) == <<"description", k>>

\* get_checklist_items_for_section(section_name) for a section holding n items
\* ([] for an unrecognised section)
get_checklist_items_for_section(n) ==
    [k \in 1..n |-> [id |-> slugify(k), description |-> Description(k)]]

\* An optional value: <<>> (absent) or <<x>> (present)
Opt(S) == {<<>>} \cup {<<x>> : x \in S}

\* A JSON object with the keys whose optional value is present
JsonObject(ev, fi, su) ==
    [k \in ({"evaluations" : i \in DOMAIN ev} \cup {"findings" : i \in DOMAIN fi}
            \cup {"summary" : i \in DOMAIN su})
        |-> CASE k = "evaluations" -> ev[1]
              [] k = "findings" -> fi[1]
              [] k = "summary" -> su[1]]

EmptyObject == JsonObject(<<>>, <<>>, <<>>)

\* ids an evaluation entry may name: known to the registry or not, by its size
EvalIds == {slugify(k) : k \in 1..(MaxEvals + 1)}

\* one entry of `evaluations`: id, optionally passed, optionally details
EvalEntries ==
    {[id |-> i] : i \in EvalIds}
    \cup {[id |-> i, passed |-> p] : i \in EvalIds, p \in BOOLEAN}
    \cup {[id |-> i, passed |-> p, details |-> "why"] : i \in EvalIds, p \in BOOLEAN}

FindingKeys == {"category", "severity", "description", "recommendation", "reference"}

\* one entry of `findings`: a complete finding naming an item or free text, or
\* a dict that lacks required fields
FindingDicts ==
    {[category |-> "warning", severity |-> "high", description |-> "issue",
      recommendation |-> "fix", reference |-> r] :
        r \in {slugify(1), slugify(2), <<"text">>}}
    \cup {[category |-> "warning", description |-> "issue"]}

FindingLists == {<<>>} \cup {<<f>> : f \in FindingDicts}

ReplyObjects ==
    {JsonObject(ev, fi, su) :
        ev \in Opt(SeqsUpTo(EvalEntries, MaxEvals)),
        fi \in Opt(FindingLists),
        su \in Opt({"summary text"})}

\* What the endpoint does when called: the request fails, the content is
\* empty, or the content is text whose JSON reading is given by `parsed`
Replies ==
    {[kind |-> k, parsed |-> [type |-> "none", obj |-> EmptyObject]] :
        k \in {"api_error", "empty_content"}}
    \cup {[kind |-> "text", parsed |-> [type |-> t, obj |-> EmptyObject]] :
        t \in {"unparseable", "array"}}
    \cup {[kind |-> "text", parsed |-> [type |-> "object", obj |-> o]] :
        o \in ReplyObjects}

NoReply == [kind |-> "not_called", parsed |-> [type |-> "none", obj |-> EmptyObject]]

(***************************************************************************)
(* analyze_section                                                         *)
(***************************************************************************)
Raise(e) == [kind |-> "error", error |-> e]

\* Python's round(num / den) for num >= 0, den > 0: nearest integer, ties to
\* the even one.  (The float expression passed_count / total_count * 10
\* agrees with the exact quotient's rounding for every total up to 40.)
PyRound(num, den) ==
    LET fl == num \div den
        r2 == 2 * (num % den)
    IN  IF r2 < den THEN fl
        ELSE IF r2 > den THEN fl + 1
        ELSE IF fl % 2 = 0 THEN fl ELSE fl + 1

PassedCount(checklist) == Cardinality({k \in DOMAIN checklist : checklist[k].passed})

\* score = int(passed_count / total_count * 10): truncation instead of round
ComputeScoreTruncated(checklist) ==
    IF Len(checklist) > 0 THEN (PassedCount(checklist) * 10) \div Len(checklist) ELSE 0

ComputeScore(checklist) ==
    IF Len(checklist) > 0 THEN PyRound(PassedCount(checklist) * 10, Len(checklist)) ELSE 0

\* details left unset for the items of a missing section
MissingSectionNoDetails(items) ==
    LET checklist == [k \in DOMAIN items |->
            [id |-> items[k].id, description |-> items[k].description,
             passed |-> FALSE, details |-> None]]
    IN  [kind |-> "analysis", checklist |-> checklist,
         findings |-> <<[category |-> "suggestion", severity |-> "medium",
                         description |-> "not configured",
                         recommendation |-> "consider adding",
                         reference |-> <<"text">>]>>,
         score |-> IF Len(checklist) > 0
                   THEN PyRound(PassedCount(checklist) * 10, Len(checklist)) ELSE 0,
         summary |-> "This section is not configured."]

_create_missing_section_analysis(items) ==
    LET checklist == [k \in DOMAIN items |->
            [id |-> items[k].id, description |-> items[k].description,
             passed |-> FALSE, details |-> "Section not configured"]]
    IN  [kind |-> "analysis", checklist |-> checklist,
         findings |-> <<[category |-> "suggestion", severity |-> "medium",
                         description |-> "not configured",
                         recommendation |-> "consider adding",
                         reference |-> <<"text">>]>>,
         score |-> IF Len(checklist) > 0
                   THEN PyRound(PassedCount(checklist) * 10, Len(checklist)) ELSE 0,
         summary |-> "This section is not configured."]

\* call_serving_endpoint: raises unless the response carries non-empty content
call_serving_endpoint(r) ==
    IF r.kind = "api_error" THEN Raise("serving endpoint call failed")
    ELSE IF r.kind = "empty_content" THEN Raise("LLM returned empty content")
    ELSE [kind |-> "content", parsed |-> r.parsed]

\* a parser that answers {} for text it cannot decode
ParseSwallowsDecodeError(content) ==
    IF content.parsed.type = "unparseable"
    THEN [kind |-> "json", type |-> "object", obj |-> EmptyObject]
    ELSE [kind |-> "json", type |-> content.parsed.type, obj |-> content.parsed.obj]

\* parse_json_from_llm_response, by its outcome on the content: the decode
\* error, or the decoded JSON value
parse_json_from_llm_response(content) ==
    IF content.parsed.type = "unparseable" THEN Raise("JSONDecodeError")
    ELSE [kind |-> "json", type |-> content.parsed.type, obj |-> content.parsed.obj]

\* {e["id"]: e for e in evaluations}: the last entry of an id wins
EvaluationsById(evals) ==
    [i \in {evals[j].id : j \in DOMAIN evals} |->
        LET last == CHOOSE j \in DOMAIN evals :
                /\ evals[j].id = i
                /\ \A m \in DOMAIN evals : evals[m].id = i => m <= j
        IN  evals[last]]

\* an item the reply does not evaluate counts as passed
EvaluateDefaultPassed(items, obj) ==
    LET evaluations == EvaluationsById(Get(obj, "evaluations", <<>>))
    IN  [k \in DOMAIN items |->
            LET eval_result == Get(evaluations, items[k].id, <<>>)
            IN  [id |-> items[k].id, description |-> items[k].description,
                 passed |-> Get(eval_result, "passed", TRUE),
                 details |-> Get(eval_result, "details", None)]]

\* a checklist with one entry per evaluation of the reply, in reply order
ChecklistFromEvaluations(items, obj) ==
    LET evals == Get(obj, "evaluations", <<>>)
    IN  [j \in DOMAIN evals |->
            [id |-> evals[j].id, description |-> Description(evals[j].id[2]),
             passed |-> Get(evals[j], "passed", FALSE),
             details |-> Get(evals[j], "details", None)]]

\* the loop building the checklist from the reply's evaluations
EvaluateChecklist(items, obj) ==
    LET evaluations == EvaluationsById(Get(obj, "evaluations", <<>>))
    IN  [k \in DOMAIN items |->
            LET eval_result == Get(evaluations, items[k].id, <<>>)
            IN  [id |-> items[k].id, description |-> items[k].description,
                 passed |-> Get(eval_result, "passed", FALSE),
                 details |-> Get(eval_result, "details", None)]]

\* Finding(**f) validates: every required field must be present
ValidFinding(f) == FindingKeys \subseteq DOMAIN f

\* analyze_section past the missing-section test, given the endpoint's reply;
\* `calls` counts the call_serving_endpoint calls made
AnalyzeConfigured(items, r) ==
    IF items = <<>>
    THEN [calls |-> 0,
          out |-> [kind |-> "analysis", checklist |-> <<>>, findings |-> <<>>,
                   score |-> ComputeScore(<<>>),
                   summary |-> "No checklist items defined for this section."]]
    ELSE
      LET content == call_serving_endpoint(r)
          parsed  == parse_json_from_llm_response(content)
          obj     == parsed.obj
          checklist == EvaluateChecklist(items, obj)
          findings  == Get(obj, "findings", <<>>)
      IN  [calls |-> 1,
           out |->
             IF content.kind = "error" THEN content
             ELSE IF parsed.kind = "error" THEN parsed
             ELSE IF parsed.type # "object" THEN Raise("AttributeError: get")
             ELSE IF \E i \in DOMAIN findings : ~ValidFinding(findings[i])
                  THEN Raise("ValidationError: Finding")
             ELSE [kind |-> "analysis", checklist |-> checklist,
                   findings |-> findings, score |-> ComputeScore(checklist),
                   summary |-> Get(obj, "summary", "")]]

analyze_section(items, data, r) ==
    IF data = "None"
    THEN [calls |-> 0, out |-> _create_missing_section_analysis(items)]
    ELSE AnalyzeConfigured(items, r)

(***************************************************************************)
(* Idle values of each specification's variables                           *)
(***************************************************************************)
AnalyzeIdle ==
    /\ registry = <<>>
    /\ section_data = "None"
    /\ reply = NoReply
    /\ result = [kind |-> "pending"]
    /\ llm_calls = 0

SessionIdle ==
    /\ session_id = NoSession
    /\ run = <<>>

MergeIdle ==
    /\ heap = <<>>
    /\ merge = [pc |-> "none"]

CallIdle == call = [fn |-> "none"]

(***************************************************************************)
(* SpecAnalyze: one call of analyze_section on inputs drawn from the       *)
(* bounded sets above                                                      *)
(***************************************************************************)
InitAnalyze ==
    /\ registry \in {get_checklist_items_for_section(n) : n \in 0..MaxItems}
    /\ \/ section_data = "None" /\ reply = NoReply
       \/ section_data = "configured" /\ reply \in Replies
    /\ result = [kind |-> "pending"]
    /\ llm_calls = 0
    /\ SessionIdle
    /\ MergeIdle
    /\ CallIdle

AnalyzeSection ==
    /\ result.kind = "pending"
    /\ LET r == analyze_section(registry, section_data, reply)
       IN  /\ result' = r.out
           /\ llm_calls' = llm_calls + r.calls
    /\ UNCHANGED <<registry, section_data, reply, sessionVars, mergeVars, callVars>>

NextAnalyze == AnalyzeSection

SpecAnalyze == InitAnalyze /\ [][NextAnalyze]_vars

(***************************************************************************)
(* Claims about analyze_section (checked under SpecAnalyze)                *)
(***************************************************************************)
Abs(x) == IF x < 0 THEN -x ELSE x

\* s is the integer nearest to num/den, the even one of the two on a tie
NearestTiesEven(s, num, den) ==
    /\ 2 * Abs(num - s * den) <= den
    /\ 2 * Abs(num - s * den) = den => s % 2 = 0

\* the `evaluations` list of the reply (empty when the key is absent)
ReplyEvaluations == Get(reply.parsed.obj, "evaluations", <<>>)

AllItemsFailed(checklist) == \A k \in DOMAIN checklist : ~checklist[k].passed

\* C1: every SectionAnalysis returned (missing-section path and LLM path) has
\* score = round(10 * passed / total) when total > 0, score = 0 when total = 0,
\* and 0 <= score <= 10.
C1_ScoreIsRoundedRatio ==
    result.kind = "analysis" =>
        LET passed == PassedCount(result.checklist)
            total  == Len(result.checklist)
        IN  /\ total > 0 => NearestTiesEven(result.score, 10 * passed, total)
            /\ total = 0 => result.score = 0
            /\ 0 <= result.score /\ result.score <= 10

\* C1 witness: an LLM-path analysis with 1 of 4 items passed (10/4 = 2.5, a tie)
C1_Witness ==
    /\ result.kind = "analysis"
    /\ section_data = "configured"
    /\ Len(result.checklist) = 4
    /\ PassedCount(result.checklist) = 1
    /\ result.score = 2

\* C2: for a configured section, a registry item whose id no evaluation names
\* is reported passed = false with details = null, and an item is reported
\* passed = true only if some evaluation has that id and passed = true.
C2_FailClosedOnMissingEvaluation ==
    (result.kind = "analysis" /\ section_data = "configured") =>
        \A k \in DOMAIN result.checklist :
            LET item == result.checklist[k]
                named == {j \in DOMAIN ReplyEvaluations :
                            ReplyEvaluations[j].id = item.id}
            IN  /\ item.id = registry[k].id
                /\ named = {} => (~item.passed /\ item.details = None)
                /\ item.passed =>
                     \E j \in named :
                        /\ "passed" \in DOMAIN ReplyEvaluations[j]
                        /\ ReplyEvaluations[j].passed

\* C2 witness: an analysis with one item passed by an evaluation and another
\* item that no evaluation names
C2_Witness ==
    /\ result.kind = "analysis"
    /\ section_data = "configured"
    /\ \E k \in DOMAIN result.checklist : result.checklist[k].passed
    /\ \E k \in DOMAIN result.checklist :
            \A j \in DOMAIN ReplyEvaluations :
                ReplyEvaluations[j].id # result.checklist[k].id

\* C3: analyze_section(name, None, space) makes no LLM call and returns an
\* analysis with every registry item failed with details "Section not
\* configured", exactly one finding (suggestion, medium) and score 0.
C3_MissingSectionAnalysis ==
    (section_data = "None" /\ result.kind # "pending") =>
        /\ result.kind = "analysis"
        /\ llm_calls = 0
        /\ Len(result.checklist) = Len(registry)
        /\ \A k \in DOMAIN registry :
                /\ result.checklist[k].id = registry[k].id
                /\ ~result.checklist[k].passed
                /\ result.checklist[k].details = "Section not configured"
        /\ Len(result.findings) = 1
        /\ result.findings[1].category = "suggestion"
        /\ result.findings[1].severity = "medium"
        /\ result.score = 0

\* C3 witness: the missing-section analysis of a section with several items
C3_Witness ==
    /\ section_data = "None"
    /\ result.kind = "analysis"
    /\ Len(registry) >= 2

\* C4: in every SectionAnalysis returned, no finding's reference is the id of
\* a checklist entry whose passed is true.
C4_NoFindingForPassedItem ==
    result.kind = "analysis" =>
        ~\E i \in DOMAIN result.findings, k \in DOMAIN result.checklist :
            /\ result.checklist[k].passed
            /\ result.findings[i].reference = result.checklist[k].id

ReplyIsObject == reply.kind = "text" /\ reply.parsed.type = "object"

ReplyHasEvaluations == ReplyIsObject /\ "evaluations" \in DOMAIN reply.parsed.obj

NumRuns == 2
\* len(SECTIONS)
NumSections == 2

Runs == 1..NumRuns

\* SECTIONS: the ordered list of section paths
SECTIONS == [i \in 1..NumSections |-> <<"section", i>>]

\* str(uuid.uuid4()) drawn by run p.  Every draw is fresh and a run draws at
\* most once, so the draw is named after the run that made it.
uuid4(p) == p

\* A run's frame.  i is the 1-based position in the section list, calls the
\* LLM calls made for the section at i, tag the session id last read for the
\* trace of an analysis under way.
IdleRun ==
    [kind |-> "idle", pc |-> "idle", i |-> 1, own |-> NoSession,
     tag |-> NoSession, events |-> <<>>, analysed |-> <<>>, inflight |-> 0,
     calls |-> 0, synth |-> 0, outcome |-> "none"]

\* what is left of a frame once the run has returned or raised
Returned(r, outcome) ==
    [IdleRun EXCEPT !.kind = r.kind, !.pc = "done", !.outcome = outcome,
                    !.events = r.events, !.analysed = r.analysed,
                    !.synth = r.synth]

\* an async handler that runs without awaiting is under way on the event loop
EventLoopBusy ==
    \E q \in Runs : run[q].kind \in {"predict", "all"} /\ run[q].pc # "done"

\* progress event of enumerate(all_sections) counted from 0
AnalyzingEventFromZero(i) ==
    [status |-> "analyzing", section |-> SECTIONS[i], current |-> i - 1,
     total |-> NumSections]

\* the progress event yielded before the i-th section is analysed
AnalyzingEvent(i) ==
    [status |-> "analyzing", section |-> SECTIONS[i], current |-> i,
     total |-> NumSections]

FetchingEvent == [status |-> "fetching"]

CompleteEvent == [status |-> "complete"]

\* the loop head a run of this kind returns to
LoopHead(kind) == IF kind = "all" THEN "next" ELSE "loop"

\* the run record once the analysis of its current section has returned
SectionDone(r) ==
    [r EXCEPT !.analysed = Append(r.analysed, r.i),
              !.pc = LoopHead(r.kind),
              !.calls = 0,
              !.i = r.i + 1]

\* start_session(): self._session_id = str(uuid.uuid4())
start_session(p) == session_id' = uuid4(p)

\* end_session(): self._session_id = None
end_session == session_id' = NoSession

\* predict: start_session(), then the try block
StartPredict(p) ==
    /\ run[p].kind = "idle"
    /\ ~EventLoopBusy
    /\ start_session(p)
    /\ run' = [run EXCEPT ![p] = [IdleRun EXCEPT !.kind = "predict", !.pc = "fetch",
                                                 !.own = uuid4(p)]]
    /\ UNCHANGED <<analyzeVars, mergeVars, callVars>>

\* /analyze/all: start_session(), then the try block over request.sections
StartAnalyzeAll(p) ==
    /\ run[p].kind = "idle"
    /\ ~EventLoopBusy
    /\ start_session(p)
    /\ run' = [run EXCEPT ![p] = [IdleRun EXCEPT !.kind = "all", !.pc = "next",
                                                 !.own = uuid4(p)]]
    /\ UNCHANGED <<analyzeVars, mergeVars, callVars>>

\* predict_streaming: `if not self._session_id:` reads the shared field
StreamCheckSession(p) ==
    /\ run[p].kind = "idle"
    /\ run' = [run EXCEPT ![p] =
            [IdleRun EXCEPT !.kind = "stream",
                            !.pc = IF session_id = NoSession
                                   THEN "start" ELSE "yield_fetching"]]
    /\ UNCHANGED session_id
    /\ UNCHANGED <<analyzeVars, mergeVars, callVars>>

\* predict_streaming: self.start_session()
StreamStartSession(p) ==
    /\ run[p].pc = "start"
    /\ start_session(p)
    /\ run' = [run EXCEPT ![p] = [@ EXCEPT !.pc = "yield_fetching", !.own = uuid4(p)]]
    /\ UNCHANGED <<analyzeVars, mergeVars, callVars>>

\* predict_streaming: yield {"status": "fetching"}
EmitFetching(p) ==
    /\ run[p].pc = "yield_fetching"
    /\ run' = [run EXCEPT ![p] = [@ EXCEPT !.pc = "fetch",
                                           !.events = Append(@, FetchingEvent)]]
    /\ UNCHANGED session_id
    /\ UNCHANGED <<analyzeVars, mergeVars, callVars>>

\* a step of run p raised, leaving frame r: the finally block runs
\* end_session() and the exception leaves the run
Failed(p, r) ==
    /\ end_session
    /\ run' = [run EXCEPT ![p] = Returned(r, "error")]

\* get_serialized_space(genie_space_id): returns the space or raises
FetchSpace(p) ==
    /\ run[p].pc = "fetch"
    /\ \/ /\ run' = [run EXCEPT ![p] = [@ EXCEPT !.pc = "loop"]]
          /\ UNCHANGED session_id
       \/ Failed(p, run[p])
    /\ UNCHANGED <<analyzeVars, mergeVars, callVars>>

\* predict and predict_streaming: the head of `for ... in SECTIONS`; a
\* streaming run yields its "analyzing" event before the analysis
SectionLoop(p) ==
    /\ run[p].pc = "loop"
    /\ LET r == run[p]
       IN  run' = [run EXCEPT ![p] =
                IF r.i > NumSections
                THEN [r EXCEPT !.pc = IF r.kind = "stream"
                                      THEN "yield_complete" ELSE "end"]
                ELSE IF r.kind = "stream"
                THEN [r EXCEPT !.pc = "analyze",
                               !.events = Append(r.events, AnalyzingEvent(r.i))]
                ELSE [r EXCEPT !.pc = "analyze"]]
    /\ UNCHANGED session_id
    /\ UNCHANGED <<analyzeVars, mergeVars, callVars>>

\* /analyze/all: the head of `for section in request.sections`; the request
\* holds up to NumSections sections
RequestLoop(p) ==
    /\ run[p].pc = "next"
    /\ \/ /\ run[p].i <= NumSections
          /\ run' = [run EXCEPT ![p] = [@ EXCEPT !.pc = "analyze"]]
       \/ run' = [run EXCEPT ![p] = [@ EXCEPT !.pc = "synth"]]
    /\ UNCHANGED session_id
    /\ UNCHANGED <<analyzeVars, mergeVars, callVars>>

\* analyze_section on a section without data: no session tag, no LLM call
AnalyzeMissing(p) ==
    /\ run[p].pc = "analyze"
    /\ run' = [run EXCEPT ![p] = SectionDone(run[p])]
    /\ UNCHANGED session_id
    /\ UNCHANGED <<analyzeVars, mergeVars, callVars>>

\* analyze_section on a configured section: reads self._session_id to tag the
\* trace, then calls the serving endpoint
AnalyzeCallLLM(p) ==
    /\ run[p].pc = "analyze"
    /\ LET r == run[p]
       IN  run' = [run EXCEPT ![p] =
                [r EXCEPT !.pc = "llm", !.tag = session_id,
                          !.inflight = r.inflight + 1,
                          !.calls = r.calls + 1]]
    /\ UNCHANGED session_id
    /\ UNCHANGED <<analyzeVars, mergeVars, callVars>>

\* the serving endpoint answers: analyze_section returns its analysis, or the
\* call or the reading of its reply raises
LLMReturn(p) ==
    /\ run[p].pc = "llm"
    /\ LET r == [run[p] EXCEPT !.inflight = run[p].inflight - 1,
                               !.tag = NoSession]
       IN  \/ /\ run' = [run EXCEPT ![p] = SectionDone(r)]
              /\ UNCHANGED session_id
           \/ Failed(p, r)
    /\ UNCHANGED <<analyzeVars, mergeVars, callVars>>

\* predict_streaming: yield {"status": "complete"} after the loop
EmitComplete(p) ==
    /\ run[p].pc = "yield_complete"
    /\ run' = [run EXCEPT ![p] = [@ EXCEPT !.pc = "end",
                                           !.events = Append(@, CompleteEvent)]]
    /\ UNCHANGED session_id
    /\ UNCHANGED <<analyzeVars, mergeVars, callVars>>

\* /analyze/all: synthesize_analysis is called when is_full_analysis holds
\* (decided by the request and its full_space); its LLM call may raise
Synthesize(p) ==
    /\ run[p].pc = "synth"
    /\ \/ /\ run' = [run EXCEPT ![p] = [@ EXCEPT !.pc = "end", !.synth = @ + 1]]
          /\ UNCHANGED session_id
       \/ Failed(p, [run[p] EXCEPT !.synth = @ + 1])
       \/ /\ run' = [run EXCEPT ![p] = [@ EXCEPT !.pc = "end"]]
          /\ UNCHANGED session_id
    /\ UNCHANGED <<analyzeVars, mergeVars, callVars>>

\* the finally block on the normal path: end_session(), then the result is
\* returned
EndSession(p) ==
    /\ run[p].pc = "end"
    /\ end_session
    /\ run' = [run EXCEPT ![p] = Returned(run[p], "ok")]
    /\ UNCHANGED <<analyzeVars, mergeVars, callVars>>

InitSession ==
    /\ session_id = NoSession
    /\ run = [p \in Runs |-> IdleRun]
    /\ AnalyzeIdle
    /\ MergeIdle
    /\ CallIdle

NextSession ==
    \E p \in Runs :
        \/ StartPredict(p)
        \/ StartAnalyzeAll(p)
        \/ StreamCheckSession(p)
        \/ StreamStartSession(p)
        \/ EmitFetching(p)
        \/ FetchSpace(p)
        \/ SectionLoop(p)
        \/ RequestLoop(p)
        \/ AnalyzeMissing(p)
        \/ AnalyzeCallLLM(p)
        \/ LLMReturn(p)
        \/ EmitComplete(p)
        \/ Synthesize(p)
        \/ EndSession(p)

SpecSession == InitSession /\ [][NextSession]_vars

(***************************************************************************)
(* Claims about the session lifecycle and the streaming run (checked under *)
(* SpecSession)                                                            *)
(***************************************************************************)
\* the run is between its start (past the point where predict_streaming
\* decides whether to start a session) and its end
InSession(r) == r.pc \notin {"idle", "start", "done"}

\* C6: when analyses run concurrently on the analyzer of get_analyzer(), each
\* has its own session lifecycle: from its start to its end the session id it
\* reads is one it created itself, no other running analysis reads that id,
\* and no other analysis's start_session or end_session overwrites or clears it.
C6_OwnSessionPerAnalysis ==
    \A p \in Runs :
        InSession(run[p]) =>
            /\ run[p].own # NoSession
            /\ session_id = run[p].own
            /\ run[p].pc = "llm" => run[p].tag = run[p].own
            /\ \A q \in Runs \ {p} :
                    (run[q].pc = "llm" /\ run[p].pc = "llm") => run[q].tag # run[p].tag

\* C7: within one analysis run the session id is set once by start_session
\* and not changed until the run ends, and whenever predict, an exhausted
\* predict_streaming generator or /analyze/all terminates, normally or by an
\* exception, the session id is None afterwards.
C7_SessionFixedDuringRunClearedAtEnd ==
    [][\A p \in Runs :
          /\ (InSession(run[p]) /\ InSession(run'[p])) => session_id' = session_id
          /\ (InSession(run[p]) /\ run'[p].pc = "done") => session_id' = NoSession]_vars

\* the i-th event the claim expects of a complete run of N sections:
\* fetching, then analyzing 1/N .. N/N, then complete
ExpectedEvent(i) ==
    IF i = 1 THEN [status |-> "fetching"]
    ELSE IF i = NumSections + 2 THEN [status |-> "complete"]
    ELSE [status |-> "analyzing", section |-> <<"section", i - 1>>,
          current |-> i - 1, total |-> NumSections]

ExpectedEvents == [i \in 1..(NumSections + 2) |-> ExpectedEvent(i)]

IsPrefix(a, b) == Len(a) <= Len(b) /\ a = SubSeq(b, 1, Len(a))

HasComplete(ev) == \E k \in DOMAIN ev : ev[k].status = "complete"

\* C8: in one predict_streaming run the events are one `fetching`, then for
\* i = 1..N one `analyzing` with current = i, total = N and the i-th section,
\* then one `complete`; the i-th analysis starts only after its `analyzing`
\* event and after the (i-1)-th has finished; at most one LLM call is in
\* flight and at most one is made per section; `complete` comes only after
\* all N sections were analysed; a run that raised emits no `complete` and
\* returns no result.
C8_StreamingEventOrder ==
    \A p \in Runs :
        run[p].kind = "stream" =>
            LET r == run[p]
            IN  /\ IsPrefix(r.events, ExpectedEvents)
                /\ r.analysed = [k \in 1..Len(r.analysed) |-> k]
                /\ r.pc \in {"analyze", "llm"} =>
                        /\ Len(r.events) = r.i + 1
                        /\ r.events[r.i + 1] = ExpectedEvent(r.i + 1)
                        /\ Len(r.analysed) = r.i - 1
                /\ r.events # <<>> => Len(r.analysed) <= Len(r.events) - 1
                /\ r.events = <<>> => r.analysed = <<>>
                /\ r.inflight <= 1 /\ r.calls <= 1
                /\ r.inflight = 1 => r.pc = "llm"
                /\ HasComplete(r.events) => Len(r.analysed) = NumSections
                /\ r.outcome = "error" => ~HasComplete(r.events)
                /\ r.outcome = "ok" =>
                        /\ r.events = ExpectedEvents
                        /\ Len(r.analysed) = NumSections

\* C8 witness: a streaming run that returned its result after an event for
\* every section, beside a streaming run that raised in a later section
C8_Witness ==
    \E p, q \in Runs :
        /\ run[p].kind = "stream" /\ run[p].outcome = "ok"
        /\ Len(run[p].events) = NumSections + 2
        /\ run[q].kind = "stream" /\ run[q].outcome = "error"
        /\ Len(run[q].events) = NumSections + 1

(***************************************************************************)
(* SpecMerge: GenieSpaceOptimizer.merge_config                             *)
(*                                                                         *)
(* Python dicts and lists are mutable objects reached through references,  *)
(* so the heap is explicit: heap[a] is the object at address a, and a      *)
(* value is a string, None or a reference to an object.                    *)
(***************************************************************************)
\* largest number of suggestions in one merge_config call
MaxSuggestions == 3

Str(x) == [str |-> x]

Null == [null |-> TRUE]

Ref(a) == [ref |-> a]

IsRef(v) == "ref" \in DOMAIN v

Dict(d) == [t |-> "dict", d |-> d]

List(l) == [t |-> "list", l |-> l]

EmptyDict == Dict([k \in {} |-> Null])

IsDictAt(h, v) == IsRef(v) /\ h[v.ref].t = "dict"

IsListAt(h, v) == IsRef(v) /\ h[v.ref].t = "list"

\* d[k] = v on a dict's mapping
DictSet(d, k, v) == [x \in DOMAIN d \cup {k} |-> IF x = k THEN v ELSE d[x]]

\* the values an object holds
Children(o) ==
    IF o.t = "dict" THEN {o.d[k] : k \in DOMAIN o.d} ELSE {o.l[i] : i \in DOMAIN o.l}

\* addresses reachable from the addresses in `seen`
RECURSIVE Reach(_, _)
Reach(h, seen) ==
    LET more == {v.ref : v \in {c \in UNION {Children(h[a]) : a \in seen} : IsRef(c)}}
    IN  IF more \subseteq seen THEN seen ELSE Reach(h, seen \cup more)

\* the value a reference stands for, objects unfolded (what == compares)
RECURSIVE Contents(_, _)
Contents(h, v) ==
    IF ~IsRef(v) THEN v
    ELSE IF h[v.ref].t = "dict"
    THEN Dict([k \in DOMAIN h[v.ref].d |-> Contents(h, h[v.ref].d[k])])
    ELSE List([i \in DOMAIN h[v.ref].l |-> Contents(h, h[v.ref].l[i])])

\* the i-th smallest element of a finite set of addresses
RECURSIVE Ith(_, _)
Ith(S, i) ==
    LET m == CHOOSE x \in S : \A y \in S : x <= y
    IN  IF i = 1 THEN m ELSE Ith(S \ {m}, i - 1)

\* copy.copy(v): a new top-level object holding the same references
ShallowCopy(h, v) ==
    IF ~IsRef(v) THEN [heap |-> h, value |-> v]
    ELSE [heap |-> Append(h, h[v.ref]), value |-> Ref(Len(h) + 1)]

\* copy.deepcopy(v): every object reachable from v is copied once, and the
\* copies refer to copies
DeepCopy(h, v) ==
    IF ~IsRef(v) THEN [heap |-> h, value |-> v]
    ELSE
      LET R == Reach(h, {v.ref})
          new(a) == Len(h) + Cardinality({b \in R : b <= a})
          moved(x) == IF IsRef(x) THEN Ref(new(x.ref)) ELSE x
          copy(o) == IF o.t = "dict"
                     THEN Dict([k \in DOMAIN o.d |-> moved(o.d[k])])
                     ELSE List([i \in DOMAIN o.l |-> moved(o.l[i])])
      IN  [heap |-> h \o [i \in 1..Cardinality(R) |-> copy(h[Ith(R, i)])],
           value |-> Ref(new(v.ref))]

(***************************************************************************)
(* field paths                                                             *)
(***************************************************************************)
\* one dot-separated part of a field_path: `name` or `name[idx]`
Part(name) == [name |-> name, idx |-> -1]

PartAt(name, idx) == [name |-> name, idx |-> idx]

Key(k) == [key |-> k]

Index(n) == [index |-> n]

IsIndex(seg) == "index" \in DOMAIN seg

\* the segments of a path: a key per part, followed by the part's index
RECURSIVE Segments(_)
Segments(parts) ==
    IF parts = <<>> THEN <<>>
    ELSE (IF Head(parts).idx >= 0
          THEN <<Key(Head(parts).name), Index(Head(parts).idx)>>
          ELSE <<Key(Head(parts).name)>>) \o Segments(Tail(parts))

\* list.append(v) when n is past the end, with no padding
ListSetAppend(l, n, v) ==
    IF n < Len(l) THEN [l EXCEPT ![n + 1] = v] ELSE Append(l, v)

\* a list padded with None up to index n, then list[n] = v
ListSet(l, n, v) ==
    [i \in 1..(IF Len(l) > n + 1 THEN Len(l) ELSE n + 1) |->
        IF i = n + 1 THEN v ELSE IF i <= Len(l) THEN l[i] ELSE Null]

\* _apply_suggestion from `current` on: navigate segs[:-1], creating missing
\* containers, then set the final segment.  Answers the heap as the call
\* leaves it and the exception raised ("none" if it returned).
RECURSIVE ApplyFrom(_, _, _, _)
ApplyFrom(h, current, segs, value) ==
    LET seg == Head(segs)
    IN  IF Len(segs) = 1
        THEN IF IsIndex(seg)
             THEN IF ~IsListAt(h, current)
                  THEN [heap |-> h, exc |-> "ValueError"]
                  ELSE [heap |-> [h EXCEPT ![current.ref] =
                                    List(ListSet(h[current.ref].l, seg.index, value))],
                        exc |-> "none"]
             ELSE IF ~IsDictAt(h, current)
                  THEN [heap |-> h, exc |-> "ValueError"]
                  ELSE [heap |-> [h EXCEPT ![current.ref] =
                                    Dict(DictSet(h[current.ref].d, seg.key, value))],
                        exc |-> "none"]
        ELSE IF IsIndex(seg)
             THEN IF ~IsListAt(h, current) \/ seg.index >= Len(h[current.ref].l)
                  THEN [heap |-> h, exc |-> "ValueError"]
                  ELSE ApplyFrom(h, h[current.ref].l[seg.index + 1], Tail(segs), value)
             ELSE IF ~IsDictAt(h, current)
                  THEN [heap |-> h, exc |-> "ValueError"]
                  ELSE IF seg.key \notin DOMAIN h[current.ref].d
                  THEN LET made == IF IsIndex(segs[2]) THEN List(<<>>) ELSE EmptyDict
                           h1 == Append([h EXCEPT ![current.ref] =
                                            Dict(DictSet(h[current.ref].d, seg.key,
                                                         Ref(Len(h) + 1)))],
                                        made)
                       IN  ApplyFrom(h1, Ref(Len(h) + 1), Tail(segs), value)
                  ELSE ApplyFrom(h, h[current.ref].d[seg.key], Tail(segs), value)

_apply_suggestion(h, config, field_path, value) ==
    ApplyFrom(h, config, Segments(field_path), value)

(***************************************************************************)
(* merge_config, one action per step of the call                           *)
(***************************************************************************)
\* the exception classes `except Exception` catches that this code can raise
ExceptionClasses == {"ValueError", "KeyError", "IndexError", "TypeError"}

\* `except KeyError:` in place of `except Exception:`
CatchesKeyErrorOnly(exc) == exc = "KeyError"

\* `except Exception as e:` around _apply_suggestion
Catches(exc) == exc \in ExceptionClasses

\* the caller's configuration trees: the heaps they occupy, root at address 1
Trees ==
    { <<EmptyDict>>,
      <<Dict("a" :> Ref(2)), Dict("b" :> Str("old"))>>,
      <<Dict("a" :> Ref(2)), List(<<Ref(3)>>), Dict("b" :> Str("old"))>>,
      <<Dict(("a" :> Ref(2)) @@ ("b" :> Ref(3))), List(<<Str("old")>>), List(<<>>)>> }

\* the field paths suggestions address: a, a.b, a[0], a[0].b, b.a[0], b[1]
FieldPaths ==
    { <<Part("a")>>, <<Part("a"), Part("b")>>, <<PartAt("a", 0)>>,
      <<PartAt("a", 0), Part("b")>>, <<Part("b"), PartAt("a", 0)>>,
      <<PartAt("b", 1)>> }

\* a suggestion as the caller writes it: its path and whether its value is a
\* string or a (mutable) mapping
SuggestionInputs == [field_path : FieldPaths, value : {"str", "dict"}]

\* the suggestions as objects: a mapping-valued suggestion owns a dict of
\* its own, allocated from address `base` + 1 on
SuggestionList(inputs, base) ==
    [k \in DOMAIN inputs |->
        [field_path |-> inputs[k].field_path,
         suggested_value |->
            IF inputs[k].value = "str" THEN Str("new")
            ELSE Ref(base + Cardinality({j \in 1..k : inputs[j].value = "dict"}))]]

SuggestionObjects(inputs) ==
    [i \in 1..Cardinality({j \in DOMAIN inputs : inputs[j].value = "dict"}) |-> EmptyDict]

\* the caller has built space_data and the suggestions; merge_config is
\* about to run
InitMerge ==
    /\ \E tree \in Trees, inputs \in SeqsUpTo(SuggestionInputs, MaxSuggestions) :
          /\ heap = tree \o SuggestionObjects(inputs)
          /\ merge = [pc |-> "called",
                      space_data |-> Ref(1),
                      suggestions |-> SuggestionList(inputs, Len(tree)),
                      before |-> Contents(tree, Ref(1)),
                      merged |-> Null,
                      applied_count |-> 0,
                      failed_paths |-> <<>>,
                      i |-> 0,
                      attempted |-> <<>>,
                      raised |-> <<>>]
    /\ AnalyzeIdle
    /\ SessionIdle
    /\ CallIdle

\* merged = copy.deepcopy(space_data); applied_count = 0; failed_paths = []
MergeCopy ==
    /\ merge.pc = "called"
    /\ LET c == DeepCopy(heap, merge.space_data)
       IN  /\ heap' = c.heap
           /\ merge' = [merge EXCEPT !.pc = "loop", !.merged = c.value,
                                     !.applied_count = 0, !.failed_paths = <<>>]
    /\ UNCHANGED <<analyzeVars, sessionVars, callVars>>

\* one iteration of `for suggestion in suggestions:` with its try/except
MergeApply ==
    /\ merge.pc = "loop"
    /\ merge.i < Len(merge.suggestions)
    /\ LET suggestion == merge.suggestions[merge.i + 1]
           r == _apply_suggestion(heap, merge.merged, suggestion.field_path,
                                  suggestion.suggested_value)
           tried == [merge EXCEPT !.i = @ + 1,
                                  !.attempted = Append(@, merge.i + 1),
                                  !.raised = Append(@, r.exc # "none")]
       IN  /\ heap' = r.heap
           /\ merge' =
                IF r.exc = "none"
                THEN [tried EXCEPT !.applied_count = @ + 1]
                ELSE IF Catches(r.exc)
                THEN [tried EXCEPT !.failed_paths = Append(@, suggestion.field_path)]
                ELSE [tried EXCEPT !.pc = "raised"]
    /\ UNCHANGED <<analyzeVars, sessionVars, callVars>>

\* the loop is over: return ConfigMergeResponse(merged_config=merged, ...)
MergeReturn ==
    /\ merge.pc = "loop"
    /\ merge.i = Len(merge.suggestions)
    /\ merge' = [merge EXCEPT !.pc = "returned"]
    /\ UNCHANGED <<heap, analyzeVars, sessionVars, callVars>>

\* afterwards the caller changes an object of merged_config in place
MutateMerged ==
    /\ merge.pc = "returned"
    /\ \E a \in Reach(heap, {merge.merged.ref}) :
          heap' = [heap EXCEPT ![a] =
                      IF @.t = "dict" THEN Dict(DictSet(@.d, "a", Str("changed")))
                      ELSE List(Append(@.l, Str("changed")))]
    /\ merge' = [merge EXCEPT !.pc = "mutated"]
    /\ UNCHANGED <<analyzeVars, sessionVars, callVars>>

NextMerge ==
    \/ MergeCopy
    \/ MergeApply
    \/ MergeReturn
    \/ MutateMerged

SpecMerge == InitMerge /\ [][NextMerge]_vars

(***************************************************************************)
(* Claims about merge_config (checked under SpecMerge)                     *)
(***************************************************************************)
\* the objects of the caller's tree and of the merged tree
TreeObjects == Reach(heap, {merge.space_data.ref})

MergedObjects == IF IsRef(merge.merged) THEN Reach(heap, {merge.merged.ref}) ELSE {}

\* C9: merge_config never modifies the caller's tree.  From the call on,
\* through every applied or failed suggestion, after the return and after
\* the caller has changed merged_config in place, space_data equals what it
\* was before the call, and the merged tree shares no object with it.
C9_CallerTreeUntouched ==
    merge.pc # "none" =>
        /\ Contents(heap, merge.space_data) = merge.before
        /\ TreeObjects \cap MergedObjects = {}

\* merge_config has returned after applying some suggestions and failing
\* others, the merged tree differs from the caller's, and the caller has
\* then changed merged_config in place
C9_Witness ==
    /\ merge.pc = "mutated"
    /\ merge.applied_count >= 1
    /\ Len(merge.failed_paths) >= 1
    /\ Cardinality(TreeObjects) >= 2
    /\ Contents(heap, merge.merged) # merge.before

Missing == [missing |-> TRUE]

\* reading the tree along the segments: the value there, or Missing
RECURSIVE ReadPath(_, _, _)
ReadPath(h, v, segs) ==
    IF segs = <<>> THEN v
    ELSE IF IsIndex(Head(segs))
    THEN IF IsListAt(h, v) /\ Head(segs).index < Len(h[v.ref].l)
         THEN ReadPath(h, h[v.ref].l[Head(segs).index + 1], Tail(segs))
         ELSE Missing
    ELSE IF IsDictAt(h, v) /\ Head(segs).key \in DOMAIN h[v.ref].d
         THEN ReadPath(h, h[v.ref].d[Head(segs).key], Tail(segs))
         ELSE Missing

\* suggestion k's value is what the merged tree holds at suggestion k's path
ValuePresent(k) ==
    ReadPath(heap, merge.merged, Segments(merge.suggestions[k].field_path))
        = merge.suggestions[k].suggested_value

\* suggestion j was applied after suggestion k and wrote at k's location or
\* at a container on the way to it
OverwrittenBy(k, j) ==
    /\ j > k
    /\ j <= merge.i
    /\ ~merge.raised[j]
    /\ IsPrefix(Segments(merge.suggestions[j].field_path),
                Segments(merge.suggestions[k].field_path))

\* the bookkeeping of the loop once merge_config has returned
MergeAccounting ==
    LET n == Len(merge.suggestions)
        raisedAt == {k \in 1..n : merge.raised[k]}
    IN  /\ merge.attempted = [k \in 1..n |-> k]
        /\ merge.applied_count + Len(merge.failed_paths) = n
        /\ Len(merge.failed_paths) = Cardinality(raisedAt)
        /\ \A m \in 1..Len(merge.failed_paths) :
              merge.failed_paths[m] =
                  merge.suggestions[Ith(raisedAt, m)].field_path

\* C10 as stated: merge_config never raises, attempts every suggestion once
\* and in order, applied_count + failed paths = number of suggestions, the
\* failed paths are those of the suggestions that raised, and the value of
\* every other suggestion is present in merged_config.
C10_Original_EveryAppliedValuePresent ==
    /\ merge.pc # "raised"
    /\ merge.pc = "returned" =>
          /\ MergeAccounting
          /\ \A k \in 1..Len(merge.suggestions) : ~merge.raised[k] => ValuePresent(k)

\* C10, amended: as above, but the value of a suggestion that did not raise
\* is at its path in the merged tree from its application on only until a
\* later applied suggestion writes at that path or at a prefix of it (the
\* suggestions are applied in order and the last write wins).
C10_PartialFailureTolerant ==
    /\ merge.pc # "raised"
    /\ merge.pc = "returned" => MergeAccounting
    /\ merge.pc \in {"loop", "returned"} =>
          \A k \in 1..merge.i :
              (~merge.raised[k] /\ ~\E j \in 1..merge.i : OverwrittenBy(k, j))
                  => ValuePresent(k)

\* merge_config has returned from three suggestions of which exactly the
\* second raised; the two others are in the merged tree
C10_Witness ==
    /\ merge.pc = "returned"
    /\ merge.raised = <<FALSE, TRUE, FALSE>>
    /\ merge.applied_count = 2
    /\ Len(merge.failed_paths) = 1
    /\ ValuePresent(1)
    /\ ValuePresent(3)

(***************************************************************************)
(* Claims about _apply_suggestion (checked under SpecMerge, on the steps   *)
(* of merge_config that apply one suggestion)                              *)
(***************************************************************************)
\* paths a tree of the model can be read along: up to three segments
ProbeSegments == {Key("a"), Key("b"), Index(0), Index(1)}

ProbePaths == UNION {[1..n -> ProbeSegments] : n \in 1..3}

Front(segs) == SubSeq(segs, 1, Len(segs) - 1)

Last(segs) == segs[Len(segs)]

\* a step of merge_config in which _apply_suggestion ran on the next suggestion
ApplyStep == merge.pc = "loop" /\ merge'.i = merge.i + 1

\* that call returned without raising
ApplyReturned == ApplyStep /\ ~merge'.raised[merge'.i]

AppliedSegments == Segments(merge.suggestions[merge.i + 1].field_path)

AppliedValue == merge.suggestions[merge.i + 1].suggested_value

\* the tree before and after the call, read along q
ReadBefore(q) == ReadPath(heap, merge.merged, q)

ReadAfter(q) == ReadPath(heap', merge.merged, q)

\* C11: set-then-get for _apply_suggestion.  `a.b[2].c` is tokenized into
\* a, b, 2, c.  In a call that returns: a container that was missing on the
\* way is now an empty-born list if the segment after it is an index and a
\* mapping otherwise; a final index n on a list of length L <= n leaves the
\* list with length n + 1 and nulls at L..n-1; reading the tree along the
\* segments yields the suggested value; every location neither on the path
\* nor under it holds what it held before.  A final index on an existing
\* list never raises.
C11_SetThenGet ==
    [][/\ Segments(<<Part("a"), PartAt("b", 2), Part("c")>>)
            = <<Key("a"), Key("b"), Index(2), Key("c")>>
       /\ (ApplyStep /\ IsIndex(Last(AppliedSegments))
             /\ IsListAt(heap, ReadBefore(Front(AppliedSegments))))
            => ~merge'.raised[merge'.i]
       /\ ApplyReturned =>
            LET segs == AppliedSegments
                n == Last(segs).index
                parent == ReadAfter(Front(segs))
                L == IF IsListAt(heap, ReadBefore(Front(segs)))
                     THEN Len(heap[ReadBefore(Front(segs)).ref].l) ELSE 0
            IN  /\ \A m \in 1..(Len(segs) - 1) :
                      ReadBefore(SubSeq(segs, 1, m)) = Missing =>
                          IF IsIndex(segs[m + 1])
                          THEN IsListAt(heap', ReadAfter(SubSeq(segs, 1, m)))
                          ELSE IsDictAt(heap', ReadAfter(SubSeq(segs, 1, m)))
                /\ (IsIndex(Last(segs)) /\ L <= n) =>
                      /\ Len(heap'[parent.ref].l) = n + 1
                      /\ \A j \in (L + 1)..n : heap'[parent.ref].l[j] = Null
                /\ ReadAfter(segs) = AppliedValue
                /\ \A q \in ProbePaths :
                      (~IsPrefix(q, segs) /\ ~IsPrefix(segs, q)
                            /\ ReadBefore(q) # Missing)
                          => Contents(heap', ReadAfter(q)) = Contents(heap, ReadBefore(q))
      ]_vars

\* on the empty tree, a.b was applied (the mapping a was created) and then
\* b[1] (the list b was created and padded with one null)
C11_Witness ==
    /\ merge.pc = "returned"
    /\ merge.raised = <<FALSE, FALSE>>
    /\ merge.before = EmptyDict
    /\ Contents(heap, merge.merged) =
          Dict(("a" :> Dict("b" :> Str("new")))
               @@ ("b" :> List(<<Null, Str("new")>>)))

(***************************************************************************)
(* SpecNormalize: genie_creator._enforce_constraints and _clean_config as  *)
(* create_genie_space applies them.  Trees are nested values here: both    *)
(* functions answer a new tree (deepcopy, comprehensions).                 *)
(***************************************************************************)
\* largest number of entries in a list of the input tree
MaxEntries == 2

OthersIdle == AnalyzeIdle /\ SessionIdle /\ MergeIdle

OthersUnchanged == UNCHANGED <<analyzeVars, sessionVars, mergeVars>>

Num(n) == [num |-> n]

IsStr(v) == "str" \in DOMAIN v

IsDict(v) == "t" \in DOMAIN v /\ v.t = "dict"

IsList(v) == "t" \in DOMAIN v /\ v.t = "list"

IsError(v) == "error" \in DOMAIN v

\* bool(v)
Truthy(v) ==
    IF IsStr(v) THEN v.str # ""
    ELSE IF IsDict(v) THEN DOMAIN v.d # {}
    ELSE IF IsList(v) THEN v.l # <<>>
    ELSE IF "num" \in DOMAIN v THEN v.num # 0
    ELSE IF "bool" \in DOMAIN v THEN v.bool
    ELSE FALSE

\* s.strip(): "" for a string of blanks
strip(x) == IF x \in {"", " ", "  "} THEN "" ELSE x

_STRING_ARRAY_FIELDS ==
    {"description", "content", "question", "sql", "instruction", "synonyms",
     "usage_guidance", "comment"}

_OBJECT_ARRAY_FIELDS ==
    {"sample_questions", "tables", "metric_views", "column_configs",
     "text_instructions", "example_question_sqls", "sql_functions", "join_specs",
     "filters", "expressions", "measures", "questions", "answer", "parameters"}

_SORT_REQUIREMENTS ==
    [k \in {"sample_questions", "text_instructions", "example_question_sqls",
            "join_specs", "filters", "expressions", "measures", "questions"}
        |-> <<"id">>]
    @@ [k \in {"tables", "metric_views"} |-> <<"identifier">>]
    @@ ("column_configs" :> <<"column_name">>)
    @@ ("sql_functions" :> <<"id", "identifier">>)

SnippetTypes == <<"filters", "expressions", "measures">>

\* the test of lines 81-84: the item's sql holds a non-blank string
HasSql(item) ==
    LET sql_field == Get(item.d, "sql", List(<<>>))
    IN  /\ Truthy(sql_field)
        /\ \/ /\ IsList(sql_field)
              /\ \E i \in DOMAIN sql_field.l :
                    IsStr(sql_field.l[i]) /\ strip(sql_field.l[i].str) # ""
           \/ IsStr(sql_field) /\ strip(sql_field.str) # ""

KeepsSnippet(item) == ~IsDict(item) \/ HasSql(item)

\* the loop over snippet types on the mapping sql_snippets
FilterSnippets(sql_snippets) ==
    LET items(ty) == Get(sql_snippets.d, ty, List(<<>>))
        listed == {SnippetTypes[i] : i \in {j \in 1..3 : IsList(items(SnippetTypes[j]))}}
    IN  Dict([k \in DOMAIN sql_snippets.d \cup listed |->
                IF k \in listed THEN List(SelectSeq(items(k).l, KeepsSnippet))
                ELSE sql_snippets.d[k]])

\* _enforce_constraints; `.get` on a value that is not a mapping raises
_enforce_constraints(config) ==
    IF "instructions" \notin DOMAIN config.d THEN config
    ELSE
      LET instructions == config.d["instructions"]
      IN  IF ~IsDict(instructions) THEN Raise("AttributeError")
          ELSE
            LET text_instructions == Get(instructions.d, "text_instructions", List(<<>>))
                limited ==
                    IF IsList(text_instructions) /\ Len(text_instructions.l) > 1
                    THEN Dict(DictSet(instructions.d, "text_instructions",
                                      List(SubSeq(text_instructions.l, 1, 1))))
                    ELSE instructions
            IN  IF "sql_snippets" \notin DOMAIN limited.d
                THEN Dict(DictSet(config.d, "instructions", limited))
                ELSE IF ~IsDict(limited.d["sql_snippets"]) THEN Raise("AttributeError")
                ELSE Dict(DictSet(config.d, "instructions",
                        Dict(DictSet(limited.d, "sql_snippets",
                                     FilterSnippets(limited.d["sql_snippets"])))))

\* the strings sort keys take in the model, in Python's string order
StringOrder == <<"", "1", "2">>

Rank(x) == CHOOSE i \in DOMAIN StringOrder : StringOrder[i] = x

\* sort_key(item): tuple(item.get(k, "") for k in sort_keys)
sort_key(item, sort_keys) ==
    [i \in DOMAIN sort_keys |-> Get(item.d, sort_keys[i], Str("")).str]

\* tuple comparison a < b
RECURSIVE TupleLess(_, _)
TupleLess(a, b) ==
    IF a = <<>> \/ b = <<>> THEN a = <<>> /\ b # <<>>
    ELSE IF Rank(Head(a)) # Rank(Head(b)) THEN Rank(Head(a)) < Rank(Head(b))
    ELSE TupleLess(Tail(a), Tail(b))

\* sorted(items, key=sort_key): stable, by insertion
RECURSIVE sorted(_, _)
sorted(items, sort_keys) ==
    IF items = <<>> THEN <<>>
    ELSE LET front == sorted(SubSeq(items, 1, Len(items) - 1), sort_keys)
             x == items[Len(items)]
             before == {i \in DOMAIN front :
                          ~TupleLess(sort_key(x, sort_keys), sort_key(front[i], sort_keys))}
             n == Cardinality(before)
         IN  SubSeq(front, 1, n) \o <<x>> \o SubSeq(front, n + 1, Len(front))

_sort_array(items, sort_keys) ==
    IF items = <<>> THEN items
    ELSE IF ~\A i \in DOMAIN items : IsDict(items[i]) THEN items
    ELSE sorted(items, sort_keys)

\* _clean_config(obj, key); key is None for the root and for list items
RECURSIVE _clean_config(_, _)
_clean_config(obj, key) ==
    IF IsDict(obj)
    THEN IF key \in _OBJECT_ARRAY_FIELDS
         THEN List(<<_clean_config(obj, None)>>)
         ELSE Dict([k \in DOMAIN obj.d |-> _clean_config(obj.d[k], k)])
    ELSE IF IsList(obj)
    THEN LET kept == SelectSeq(obj.l, LAMBDA item : item # Null)
             cleaned == [i \in DOMAIN kept |-> _clean_config(kept[i], None)]
         IN  IF key \in DOMAIN _SORT_REQUIREMENTS /\ cleaned # <<>>
             THEN List(_sort_array(cleaned, _SORT_REQUIREMENTS[key]))
             ELSE List(cleaned)
    ELSE IF IsStr(obj) /\ key \in _STRING_ARRAY_FIELDS
    THEN List(<<obj>>)
    ELSE obj

\* create_genie_space: _clean_config(_enforce_constraints(merged_config))
normalize(t) ==
    LET constrained_config == _enforce_constraints(t)
    IN  IF IsError(constrained_config) THEN constrained_config
        ELSE _clean_config(constrained_config, None)

\* a mapping with the keys whose optional value is present
DictOf(keys, opt) ==
    Dict([k \in {keys[i] : i \in {j \in DOMAIN keys : opt[j] # <<>>}} |->
            opt[CHOOSE j \in DOMAIN keys : keys[j] = k][1]])

SqlValues ==
    {Str(""), Str("x"), List(<<Str(" ")>>), List(<<Null, Str("x")>>), Null}

\* entries of a snippet list: mappings with an id and maybe a sql, or null
Snippets ==
    {DictOf(<<"id", "sql">>, <<<<Str(i)>>, q>>) : i \in {"1", "2"}, q \in Opt(SqlValues)}

SnippetFields ==
    Snippets \cup {Str("x")}
    \cup {List(l) : l \in SeqsUpTo(Snippets \cup {Null}, MaxEntries)}

TextInstructions ==
    {Dict(("id" :> Str("2")) @@ ("content" :> Str("x"))),
     Dict(("id" :> Str("1")) @@ ("content" :> List(<<Str("x")>>)))}

TextInstructionFields ==
    TextInstructions
    \cup {List(l) : l \in SeqsUpTo(TextInstructions \cup {Null}, MaxEntries)}

\* the configurations create_genie_space is given
ConfigTrees ==
    {DictOf(<<"version", "instructions">>, <<<<Num(1)>>, ins>>) :
        ins \in Opt({Null} \cup
            {DictOf(<<"text_instructions", "sql_snippets">>, <<ti, ss>>) :
                ti \in Opt(TextInstructionFields),
                ss \in Opt({Null} \cup
                    {DictOf(<<"filters", "measures">>, <<f, <<List(<<>>)>>>>) :
                        f \in Opt(SnippetFields)})})}

InitNormalize ==
    /\ \E t \in ConfigTrees : call = [fn |-> "normalize", pc |-> "given", tree |-> t]
    /\ OthersIdle

\* create_genie_space normalizes the configuration it is given
Normalize ==
    /\ call.fn = "normalize" /\ call.pc = "given"
    /\ call' = [fn |-> "normalize", pc |-> "once", tree |-> call.tree,
                once |-> normalize(call.tree)]
    /\ OthersUnchanged

\* the normalized configuration is given to create_genie_space again
NormalizeAgain ==
    /\ call.fn = "normalize" /\ call.pc = "once"
    /\ ~IsError(call.once)
    /\ call' = [fn |-> "normalize", pc |-> "twice", tree |-> call.tree,
                once |-> call.once, twice |-> normalize(call.once)]
    /\ OthersUnchanged

NextNormalize ==
    \/ Normalize
    \/ NormalizeAgain

SpecNormalize == InitNormalize /\ [][NextNormalize]_vars

\* C12: normalization is idempotent: normalizing a normalized tree gives the
\* same tree.
C12_NormalizeIdempotent ==
    (call.fn = "normalize" /\ call.pc = "twice") => call.twice = call.once

\* the mapping entries of the snippet fields of a normalized tree
SnippetEntries(t) ==
    LET ss == Get(Get(t.d, "instructions", EmptyDict).d, "sql_snippets", EmptyDict)
        fields == {ss.d[k] : k \in DOMAIN ss.d \cap {"filters", "expressions", "measures"}}
    IN  UNION {IF IsList(f) THEN {f.l[i] : i \in DOMAIN f.l} ELSE {f} : f \in fields}

\* C13: in the tree create_genie_space serializes, no mapping entry under
\* instructions.sql_snippets.filters / .expressions / .measures has a sql
\* that is missing, empty or made only of blank strings.
C13_NoBlankSqlSnippet ==
    (call.fn = "normalize" /\ call.pc = "once" /\ ~IsError(call.once)) =>
        \A e \in SnippetEntries(call.once) : IsDict(e) => HasSql(e)

(***************************************************************************)
(* SpecStyle: style_detector.detect_style.  Scores and confidences are     *)
(* counted in hundredths (0.6 is 60).                                      *)
(***************************************************************************)
\* largest number of entries in a list of the space given to detect_style
MaxCount == 5

\* a string of n characters
Chars(n) == Str(<<"chars", n>>)

\* len(repr(v)) for a string, in a list: the string and its two quotes
ReprLen(v) == IF IsStr(v) /\ v.str # "" THEN v.str[2] + 2 ELSE 2

RECURSIVE SumReprLen(_)
SumReprLen(l) == IF l = <<>> THEN 0 ELSE ReprLen(Head(l)) + SumReprLen(Tail(l))

\* len(str(v)): a string is itself, a list of strings is its repr, None is
\* "None"
StrLen(v) ==
    IF IsStr(v) THEN (IF v.str = "" THEN 0 ELSE v.str[2])
    ELSE IF IsList(v)
    THEN 2 + SumReprLen(v.l) + (IF Len(v.l) > 1 THEN 2 * (Len(v.l) - 1) ELSE 0)
    ELSE 4

\* _get_nested(data, path), the path given as its dot-separated parts
RECURSIVE _get_nested(_, _)
_get_nested(data, parts) ==
    IF parts = <<>> THEN data
    ELSE IF IsDict(data) /\ Head(parts) \in DOMAIN data.d
    THEN _get_nested(data.d[Head(parts)], Tail(parts))
    ELSE Null

_count_items(data, parts) ==
    LET value == _get_nested(data, parts)
    IN  IF IsList(value) THEN Len(value.l) ELSE 0

RECURSIVE ContentChars(_)
ContentChars(l) ==
    IF l = <<>> THEN 0
    ELSE StrLen(IF IsDict(Head(l)) THEN Get(Head(l).d, "content", Str("")) ELSE Head(l))
         + ContentChars(Tail(l))

_has_rich_content(data, parts, min_chars) ==
    LET value == _get_nested(data, parts)
    IN  IsList(value) /\ ContentChars(value.l) >= min_chars

\* the indicators gathered at lines 55-74
Indicators(space_data) ==
    LET filters == _count_items(space_data, <<"instructions", "sql_snippets", "filters">>)
        expressions == _count_items(space_data, <<"instructions", "sql_snippets", "expressions">>)
        measures == _count_items(space_data, <<"instructions", "sql_snippets", "measures">>)
    IN  [tables_count |-> _count_items(space_data, <<"data_sources", "tables">>),
         metric_views_count |-> _count_items(space_data, <<"data_sources", "metric_views">>),
         text_instructions_count |->
            _count_items(space_data, <<"instructions", "text_instructions">>),
         example_sqls_count |->
            _count_items(space_data, <<"instructions", "example_question_sqls">>),
         sql_functions_count |-> _count_items(space_data, <<"instructions", "sql_functions">>),
         join_specs_count |-> _count_items(space_data, <<"instructions", "join_specs">>),
         filters_count |-> filters,
         expressions_count |-> expressions,
         measures_count |-> measures,
         benchmarks_count |-> _count_items(space_data, <<"benchmarks", "questions">>),
         has_rich_instructions |->
            _has_rich_content(space_data, <<"instructions", "text_instructions">>, 200),
         total_snippets |-> filters + expressions + measures]

If(c, x) == IF c THEN x ELSE 0

\* the styles in the order the scores are entered into `scores`
ConfigStyles ==
    <<"metric-views-focused", "tables-with-knowledge-base", "example-driven",
      "minimal-viable", "hybrid">>

\* a minimal-viable hypothesis that never scores
MinimalViableNever(ind) == 0

\* lines 122-138
MinimalViableScore(ind) ==
    LET total_items == ind.tables_count + ind.metric_views_count
                       + ind.text_instructions_count + ind.example_sqls_count
                       + ind.total_snippets
        has_strong_pattern == \/ ind.metric_views_count >= 3
                              \/ ind.tables_count >= 3
                              \/ ind.example_sqls_count >= 3
                              \/ ind.has_rich_instructions
    IN  IF has_strong_pattern THEN 0
        ELSE IF total_items <= 3 THEN 70
        ELSE IF total_items <= 5 THEN 50
        ELSE IF total_items <= 8 THEN 30
        ELSE 0

\* lines 88-160: the score of each style, in the order of ConfigStyles
Scores(ind) ==
    LET strong_areas == If(ind.metric_views_count >= 2, 1) + If(ind.tables_count >= 2, 1)
                        + If(ind.example_sqls_count >= 2, 1)
                        + If(ind.total_snippets >= 2, 1)
                        + If(ind.has_rich_instructions, 1)
    IN  << If(ind.metric_views_count >= 3, 60) + If(ind.metric_views_count >= 5, 20)
              + If(ind.metric_views_count > ind.tables_count, 20),
           If(ind.tables_count >= 3, 30) + If(ind.tables_count >= 5, 20)
              + If(ind.has_rich_instructions, 25) + If(ind.total_snippets >= 3, 15)
              + If(ind.join_specs_count >= 1, 10),
           If(ind.example_sqls_count >= 3, 30) + If(ind.example_sqls_count >= 5, 40)
              + If(ind.example_sqls_count >= 10, 30),
           MinimalViableScore(ind),
           If(strong_areas >= 3, 50) + If(strong_areas >= 4, 30) + If(strong_areas = 5, 20) >>

SeqMax(q) == CHOOSE x \in {q[i] : i \in DOMAIN q} : \A i \in DOMAIN q : q[i] <= x

\* a runner-up taken to be the best score itself
BestAgain(q) == SeqMax(q)

\* sorted(scores.values(), reverse=True)[1]: the largest score once one
\* occurrence of the best is set aside
SecondBest(q) ==
    LET first == CHOOSE i \in DOMAIN q : q[i] = SeqMax(q)
    IN  SeqMax([i \in 1..(Len(q) - 1) |-> IF i < first THEN q[i] ELSE q[i + 1]])

\* round(confidence, 2) of a confidence given in thousandths.  At a decimal
\* tie the float's binary error decides the direction; tie_up says which way
\* it falls for this input.
Round2(thousandths, tie_up) ==
    LET q == thousandths \div 10
        r == thousandths % 10
    IN  IF r < 5 THEN q ELSE IF r > 5 THEN q + 1 ELSE IF tie_up THEN q + 1 ELSE q

\* detect_style; max() answers the first style holding the best score
detect_style(space_data, tie_up) ==
    LET indicators == Indicators(space_data)
        scores == Scores(indicators)
        best_score == SeqMax(scores)
        best_style ==
            ConfigStyles[CHOOSE i \in DOMAIN scores :
                            /\ scores[i] = best_score
                            /\ \A j \in 1..(i - 1) : scores[j] # best_score]
        margin == best_score - SecondBest(scores)
        weighted == 7 * best_score + 3 * margin
        confidence == IF weighted > 1000 THEN 1000 ELSE weighted
    IN  IF best_score < 30
        THEN [detected_style |-> "hybrid", confidence |-> 30, indicators |-> indicators]
        ELSE [detected_style |-> best_style, confidence |-> Round2(confidence, tie_up),
              indicators |-> indicators]

\* a list of n empty mappings
Entries(n) == List([i \in 1..n |-> EmptyDict])

\* the text_instructions a space may hold: short or rich content
StyleTextInstructions ==
    {List(<<>>),
     List(<<Dict("content" :> List(<<Chars(50)>>))>>),
     List(<<Dict("content" :> List(<<Chars(120), Chars(120)>>))>>)}

\* the spaces detect_style is given: the empty tree, and trees holding the
\* counted lists
StyleTrees ==
    {EmptyDict}
    \cup {Dict(("data_sources" :>
                  Dict(("tables" :> Entries(t)) @@ ("metric_views" :> Entries(mv))))
               @@ ("instructions" :>
                  Dict(("example_question_sqls" :> Entries(ex))
                       @@ ("text_instructions" :> ti)
                       @@ ("join_specs" :> Entries(js))
                       @@ ("sql_snippets" :> Dict("filters" :> Entries(sn)))))) :
            t \in 0..MaxCount, mv \in 0..MaxCount, ex \in {0, 2, 3, MaxCount},
            ti \in StyleTextInstructions, js \in 0..1, sn \in {0, 2, 3}}

InitStyle ==
    /\ \E t \in StyleTrees, up \in BOOLEAN :
          call = [fn |-> "detect_style", pc |-> "given", tree |-> t, tie_up |-> up]
    /\ OthersIdle

\* detect_style(space_data)
DetectStyle ==
    /\ call.fn = "detect_style" /\ call.pc = "given"
    /\ call' = [fn |-> "detect_style", pc |-> "once", tree |-> call.tree,
                tie_up |-> call.tie_up,
                first |-> detect_style(call.tree, call.tie_up)]
    /\ OthersUnchanged

\* detect_style(space_data) called again on the same tree
DetectStyleAgain ==
    /\ call.fn = "detect_style" /\ call.pc = "once"
    /\ call' = [fn |-> "detect_style", pc |-> "twice", tree |-> call.tree,
                tie_up |-> call.tie_up, first |-> call.first,
                second |-> detect_style(call.tree, call.tie_up)]
    /\ OthersUnchanged

NextStyle ==
    \/ DetectStyle
    \/ DetectStyleAgain

SpecStyle == InitStyle /\ [][NextStyle]_vars

StyleCalled == call.fn = "detect_style" /\ call.pc \in {"once", "twice"}

Bool(b) == [bool |-> b]

Item(passed, details) == [kind |-> "item", passed |-> passed, details |-> details]

\* a details string: its text and the numbers formatted into it
Details(text, nums) == [text |-> text, nums |-> nums]

NotConfigured == Details("Section not configured", <<>>)

\* `for x in v`: the elements visited, or the TypeError of a value that is
\* not iterable.  A mapping yields its keys (strings); a string yields its
\* characters, kept together as one string (they are blank together).
Iterate(v) ==
    IF IsList(v) THEN v
    ELSE IF IsDict(v) THEN List([i \in 1..Cardinality(DOMAIN v.d) |-> Str("k")])
    ELSE IF IsStr(v) THEN (IF v.str = "" THEN List(<<>>) ELSE List(<<v>>))
    ELSE Raise("TypeError")

\* any(d.strip() for d in v if isinstance(d, str)) for an iterable v
AnyNonBlank(v) ==
    \E i \in DOMAIN Iterate(v).l : IsStr(Iterate(v).l[i]) /\ strip(Iterate(v).l[i].str) # ""

\* `x and any(d.strip() for d in x if isinstance(d, str))`: its value, or
\* the TypeError of iterating a truthy value that is not iterable
HasText(x) ==
    IF ~Truthy(x) THEN Bool(FALSE)
    ELSE IF IsError(Iterate(x)) THEN Iterate(x)
    ELSE Bool(AnyNonBlank(x))

\* the test a column check applies to one column mapping
ColumnTest(what, col) ==
    IF what = "description" THEN HasText(Get(col.d, "description", List(<<>>)))
    ELSE IF what = "synonyms"
    THEN LET synonyms == Get(col.d, "synonyms", List(<<>>))
         IN  IF ~Truthy(synonyms) THEN Bool(FALSE)
             ELSE IF IsError(Iterate(synonyms)) THEN Raise("TypeError")
             ELSE Bool(TRUE)
    ELSE Bool(Truthy(Get(col.d, what, Bool(FALSE))))

\* the inner loop `for col in column_configs`: counts so far, or the first
\* exception
RECURSIVE CountInner(_, _, _, _)
CountInner(cols, what, key, acc) ==
    IF cols = <<>> THEN acc
    ELSE IF ~IsDict(Head(cols)) THEN Raise("AttributeError")
    ELSE LET hit == ColumnTest(what, Head(cols))
         IN  IF IsError(hit) THEN hit
             ELSE CountInner(Tail(cols), what, key,
                             [total |-> acc.total + 1,
                              hits |-> acc.hits + If(hit.bool, 1)])

\* the outer loop `for table in section_data` with `table.get(key, [])`
RECURSIVE CountNested(_, _, _, _)
CountNested(entries, what, key, acc) ==
    IF entries = <<>> THEN acc
    ELSE IF ~IsDict(Head(entries)) THEN Raise("AttributeError")
    ELSE LET inner == Iterate(Get(Head(entries).d, key, List(<<>>)))
         IN  IF IsError(inner) THEN inner
             ELSE LET counted == CountInner(inner.l, what, key, acc)
                  IN  IF IsError(counted) THEN counted
                      ELSE CountNested(Tail(entries), what, key, counted)

\* the count of entries e of a list for which `e.get(key) and any(...)`
RECURSIVE CountEntries(_, _, _)
CountEntries(entries, key, acc) ==
    IF entries = <<>> THEN acc
    ELSE IF ~IsDict(Head(entries)) THEN Raise("AttributeError")
    ELSE LET hit == IF key = "identifier"
                    THEN Bool(Truthy(Get(Head(entries).d, key, Null)))
                    ELSE HasText(Get(Head(entries).d, key, Null))
         IN  IF IsError(hit) THEN hit
             ELSE CountEntries(Tail(entries), key,
                               [total |-> acc.total + 1, hits |-> acc.hits + If(hit.bool, 1)])

Zero == [total |-> 0, hits |-> 0]

\* len(section_data) if isinstance(section_data, list) else 0
CountOf(data) == IF IsList(data) THEN Len(data.l) ELSE 0

\* the checks that count the entries of the section
ExistChecks ==
    [check_sample_questions_exist |-> "sample question(s)",
     check_tables_exist |-> "table(s)",
     check_text_instructions_exist |-> "text instruction(s)",
     check_example_sqls_exist |-> "example question-SQL pair(s)",
     check_benchmark_questions_exist |-> "benchmark question(s)"]

\* the checks over the column_configs of the tables: what they test
ColumnChecks ==
    [check_column_descriptions_exist |-> "description",
     check_column_synonyms_exist |-> "synonyms",
     check_example_values_enabled |-> "get_example_values",
     check_value_dictionary_enabled |-> "build_value_dictionary",
     check_columns_excluded |-> "exclude"]

\* the pass rule of each column check on its counts
ColumnPasses(name, c) ==
    IF name = "check_column_descriptions_exist" THEN 2 * c.hits >= c.total
    ELSE IF name \in {"check_column_synonyms_exist", "check_example_values_enabled"}
    THEN c.hits >= 1 /\ 5 * c.hits >= c.total
    ELSE IF name = "check_value_dictionary_enabled" THEN c.hits >= 1
    ELSE c.hits >= 1 \/ c.total <= 5

\* the checks that fail on an empty or missing list with their own message
ListChecks ==
    [check_filters_exist |-> "filter",
     check_expressions_exist |-> "expression",
     check_measures_exist |-> "measure"]

\* a ratio check over the entries of the section
RatioCheck(data, key, empty, Passes(_)) ==
    LET c == CountEntries(data.l, key, Zero)
    IN  IF IsError(c) THEN c
        ELSE IF c.total = 0 THEN Item(FALSE, Details(empty, <<>>))
        ELSE Item(Passes(c), Details(key, <<c.hits, c.total>>))

CheckNames ==
    DOMAIN ExistChecks \cup DOMAIN ColumnChecks \cup DOMAIN ListChecks
    \cup {"check_tables_count_limit", "check_metric_views_have_descriptions",
          "check_parameters_have_descriptions", "check_usage_guidance_provided",
          "check_sql_functions_registered", "check_join_specs_defined"}

\* check_tables_count_limit without its guard on a missing section
TablesCountLimitUnguarded(data) ==
    Item(CountOf(data) <= 25, Details("table(s)", <<CountOf(data)>>))

check_tables_count_limit(data) ==
    IF data = Null THEN Item(FALSE, NotConfigured)
    ELSE Item(CountOf(data) <= 25, Details("table(s)", <<CountOf(data)>>))

\* check_<name>(section_data) and check_join_specs_defined(section_data,
\* tables_data)
Check(name, data, tables_data) ==
    IF name \in DOMAIN ExistChecks
    THEN IF data = Null THEN Item(FALSE, NotConfigured)
         ELSE Item(CountOf(data) >= 1, Details(ExistChecks[name], <<CountOf(data)>>))
    ELSE IF name = "check_tables_count_limit"
    THEN check_tables_count_limit(data)
    ELSE IF name \in DOMAIN ColumnChecks
    THEN IF data = Null \/ ~IsList(data) THEN Item(FALSE, Details("No tables configured", <<>>))
         ELSE LET c == CountNested(data.l, ColumnChecks[name], "column_configs", Zero)
              IN  IF IsError(c) THEN c
                  ELSE IF c.total = 0 THEN Item(FALSE, Details("No column configs found", <<>>))
                  ELSE Item(ColumnPasses(name, c), Details(ColumnChecks[name], <<c.hits, c.total>>))
    ELSE IF name = "check_metric_views_have_descriptions"
    THEN IF data = Null \/ ~IsList(data) \/ CountOf(data) = 0
         THEN Item(FALSE, Details("No metric views configured", <<>>))
         ELSE RatioCheck(data, "description", "", LAMBDA c : 2 * c.hits >= c.total)
    ELSE IF name = "check_parameters_have_descriptions"
    THEN IF data = Null \/ ~IsList(data) THEN Item(FALSE, NotConfigured)
         ELSE LET c == CountNested(data.l, "description", "parameters", Zero)
              IN  IF IsError(c) THEN c
                  ELSE IF c.total = 0 THEN Item(FALSE, Details("No parameters defined", <<>>))
                  ELSE Item(2 * c.hits >= c.total, Details("parameters", <<c.hits, c.total>>))
    ELSE IF name = "check_usage_guidance_provided"
    THEN IF data = Null \/ ~IsList(data) THEN Item(FALSE, NotConfigured)
         ELSE RatioCheck(data, "usage_guidance", "No examples defined",
                         LAMBDA c : c.hits >= 1 /\ 10 * c.hits >= 3 * c.total)
    ELSE IF name = "check_sql_functions_registered"
    THEN IF data = Null \/ ~IsList(data) \/ CountOf(data) = 0
         THEN Item(FALSE, Details("No SQL functions configured", <<>>))
         ELSE RatioCheck(data, "identifier", "", LAMBDA c : c.hits = c.total)
    ELSE IF name = "check_join_specs_defined"
    THEN LET join_count == IF Truthy(data) THEN CountOf(data) ELSE 0
             table_count == IF Truthy(tables_data) THEN CountOf(tables_data) ELSE 0
         IN  IF join_count = 0
             THEN Item(FALSE, Details("No join specs configured", <<table_count>>))
             ELSE Item(TRUE, Details("join spec(s)", <<join_count, table_count>>))
    ELSE IF data = Null \/ ~IsList(data) \/ CountOf(data) = 0
         THEN Item(FALSE, Details("No " \o ListChecks[name] \o "s configured", <<>>))
         ELSE Item(CountOf(data) >= 1, Details(ListChecks[name], <<CountOf(data)>>))

\* the checks get_programmatic_checks_for_section runs for a section
SectionChecks ==
    [config_sample_questions |-> <<"check_sample_questions_exist">>,
     data_sources_tables |->
        <<"check_tables_exist", "check_tables_count_limit",
          "check_column_descriptions_exist", "check_column_synonyms_exist",
          "check_example_values_enabled", "check_value_dictionary_enabled",
          "check_columns_excluded">>,
     data_sources_metric_views |-> <<"check_metric_views_have_descriptions">>,
     instructions_text_instructions |-> <<"check_text_instructions_exist">>,
     instructions_example_question_sqls |->
        <<"check_example_sqls_exist", "check_parameters_have_descriptions",
          "check_usage_guidance_provided">>,
     instructions_sql_functions |-> <<"check_sql_functions_registered">>,
     instructions_join_specs |-> <<"check_join_specs_defined">>,
     instructions_sql_snippets_filters |-> <<"check_filters_exist">>,
     instructions_sql_snippets_expressions |-> <<"check_expressions_exist">>,
     instructions_sql_snippets_measures |-> <<"check_measures_exist">>,
     benchmarks_questions |-> <<"check_benchmark_questions_exist">>]

\* checks.append(check(...)) one after the other: the list of items, or the
\* first exception
RECURSIVE RunChecks(_, _, _)
RunChecks(names, data, tables_data) ==
    IF names = <<>> THEN List(<<>>)
    ELSE LET item == Check(Head(names), data, tables_data)
             rest == RunChecks(Tail(names), data, tables_data)
         IN  IF IsError(item) THEN item
             ELSE IF IsError(rest) THEN rest
             ELSE List(<<item>> \o rest.l)

\* full_space.get("data_sources", {}).get("tables") when full_space is truthy
TablesOf(full_space) ==
    IF ~Truthy(full_space) THEN Null
    ELSE IF ~IsDict(full_space) THEN Raise("AttributeError")
    ELSE LET data_sources == Get(full_space.d, "data_sources", EmptyDict)
         IN  IF ~IsDict(data_sources) THEN Raise("AttributeError")
             ELSE Get(data_sources.d, "tables", Null)

get_programmatic_checks_for_section(section_name, data, full_space) ==
    IF section_name \notin DOMAIN SectionChecks THEN List(<<>>)
    ELSE IF section_name = "instructions_join_specs"
    THEN IF IsError(TablesOf(full_space)) THEN TablesOf(full_space)
         ELSE RunChecks(SectionChecks[section_name], data, TablesOf(full_space))
    ELSE RunChecks(SectionChecks[section_name], data, Null)

\* ---- the inputs of the checks ----

MaxRows == 2

FullColumn ==
    Dict([description |-> List(<<Str("d")>>), synonyms |-> List(<<Str("s")>>),
          get_example_values |-> Bool(TRUE), build_value_dictionary |-> Bool(TRUE),
          exclude |-> Bool(TRUE)])

\* the shapes of one column_configs / parameters element
Columns ==
    {EmptyDict, FullColumn, Dict([description |-> List(<<Str(" ")>>)]),
     Dict([description |-> Num(1)]), Dict([synonyms |-> Num(1)]), Null}

\* the shapes of a nested column_configs / parameters value
NestedValues ==
    {Null, Str("x"), List(<<>>), List(<<EmptyDict, FullColumn>>),
     List([i \in 1..6 |-> EmptyDict]),
     List([i \in 1..6 |-> IF i = 6 THEN FullColumn ELSE EmptyDict])}
    \cup {List(<<c>>) : c \in Columns}

\* the shapes of one element of a section's list
Rows ==
    {EmptyDict, Null, Str("x")}
    \cup {Dict([column_configs |-> v]) : v \in NestedValues}
    \cup {Dict([parameters |-> List(<<FullColumn>>), usage_guidance |-> List(<<Str("g")>>)]),
          Dict([parameters |-> Null, usage_guidance |-> Num(1)]),
          Dict([description |-> List(<<Str("d")>>), identifier |-> Str("f")]),
          Dict([description |-> Num(1), identifier |-> Str("")])}

SectionValues ==
    {Null, Str("x"), Num(1), EmptyDict} \cup {List(l) : l \in SeqsUpTo(Rows, MaxRows)}

TablesValues == {Null, Str("x"), List(<<>>), List(<<EmptyDict>>)}

FullSpaces ==
    {Null, EmptyDict, Str("x"), Dict([data_sources |-> Null]),
     Dict([data_sources |-> EmptyDict]),
     Dict([data_sources |-> Dict([tables |-> List(<<EmptyDict>>)])])}

SectionNames == DOMAIN SectionChecks \cup {"unknown"}

InitChecks ==
    /\ OthersIdle
    /\ \E data \in SectionValues : call = [fn |-> "checks", pc |-> "given", data |-> data]

\* one deterministic check is called on the section's data
CallCheck ==
    /\ call.fn = "checks" /\ call.pc = "given"
    /\ \E name \in CheckNames, tables_data \in TablesValues :
          call' = [fn |-> "checks", pc |-> "checked", data |-> call.data,
                   name |-> name, tables_data |-> tables_data,
                   item |-> Check(name, call.data, tables_data)]
    /\ OthersUnchanged

\* the checks of one section are run on the section's data
RunSectionChecks ==
    /\ call.fn = "checks" /\ call.pc = "given"
    /\ \E section_name \in SectionNames, full_space \in FullSpaces :
          call' = [fn |-> "checks", pc |-> "ran", data |-> call.data,
                   section_name |-> section_name, full_space |-> full_space,
                   items |-> get_programmatic_checks_for_section(
                                 section_name, call.data, full_space)]
    /\ OthersUnchanged

NextChecks == CallCheck \/ RunSectionChecks

SpecChecks == InitChecks /\ [][NextChecks]_vars

Checked == call.fn = "checks" /\ call.pc = "checked"

Ran == call.fn = "checks" /\ call.pc = "ran"

\* C15: every deterministic check called with section_data None (and any
\* tables_data) returns an item that has not passed, and so every item that
\* get_programmatic_checks_for_section(path, None, full_space) returns has
\* not passed either.
C15_NoneNeverPasses ==
    /\ (Checked /\ call.data = Null) =>
           (~IsError(call.item) /\ call.item.passed = FALSE)
    /\ (Ran /\ call.data = Null /\ ~IsError(call.items)) =>
           \A i \in DOMAIN call.items.l : call.items.l[i].passed = FALSE

C15_Witness ==
    /\ Ran /\ call.data = Null
    /\ call.section_name = "data_sources_tables"
    /\ call.full_space = EmptyDict
    /\ ~IsError(call.items) /\ Len(call.items.l) = 7
    /\ \A i \in DOMAIN call.items.l : call.items.l[i].passed = FALSE

\* C16: a deterministic check called with section_data None returns the
\* details "Section not configured".
C16_NoneDetailsNotConfigured ==
    (Checked /\ call.data = Null) =>
        (~IsError(call.item) /\ call.item.details = NotConfigured)

\* C17: a deterministic check returns an item and raises nothing, whatever
\* the shape of the section's data and of the values nested in it.
C17_ChecksTotal ==
    Checked => ~IsError(call.item)

(***************************************************************************)
(* SpecParse: parse_checklist_markdown reads a checklist document          *)
(***************************************************************************)
MaxLines == 4

RECOGNIZED_SECTIONS ==
    {"data_sources.tables", "data_sources.metric_views",
     "instructions.text_instructions", "instructions.example_question_sqls",
     "instructions.sql_functions", "instructions.join_specs",
     "instructions.sql_snippets.filters", "instructions.sql_snippets.expressions",
     "instructions.sql_snippets.measures", "benchmarks.questions"}

\* A stripped line: the marker it starts with ("" for any other line), the
\* first backticked name in it (None without one), the bold tag and the text
\* after the marker.
Line(head, tick, tag, text) == [head |-> head, tick |-> tick, tag |-> tag, text |-> text]

Lines ==
    {Line("## ", n, "", "") : n \in {"data_sources", "instructions", None}}
    \cup {Line("### ", n, "", "") : n \in {"tables", "sql_snippets", None}}
    \cup {Line("#### ", n, "", "") : n \in {"filters", None}}
    \cup {Line("- [ ]", None, "**[P]**", "a"), Line("- [ ]", None, "", "b"),
          Line("- [ ]", None, "**[L]**", ""), Line("", None, "", "b")}

\* the parser's locals before the first line
ParseStart ==
    [current_h2 |-> "", current_h3 |-> "", current_h4 |-> "",
     result |-> [section \in RECOGNIZED_SECTIONS |-> <<>>]]

\* match.group(1) if match else ""
Matched(line) == IF line.tick = None THEN "" ELSE line.tick

\* a heading that leaves the names of the deeper levels as they are
HeadingKeepsDeeper(st, line) ==
    IF line.head = "## " THEN [st EXCEPT !.current_h2 = Matched(line)]
    ELSE IF line.head = "### " THEN [st EXCEPT !.current_h3 = Matched(line)]
    ELSE [st EXCEPT !.current_h4 = Matched(line)]

\* the three heading branches of the loop
Heading(st, line) ==
    IF line.head = "## "
    THEN [st EXCEPT !.current_h2 = Matched(line), !.current_h3 = "", !.current_h4 = ""]
    ELSE IF line.head = "### "
    THEN [st EXCEPT !.current_h3 = Matched(line), !.current_h4 = ""]
    ELSE [st EXCEPT !.current_h4 = Matched(line)]

\* the `- [ ]` branch: item_text is the text with the tag removed
ChecklistLine(st, line) ==
    LET item_text == line.text
        section_path ==
            IF st.current_h4 # ""
            THEN st.current_h2 \o "." \o st.current_h3 \o "." \o st.current_h4
            ELSE st.current_h2 \o "." \o st.current_h3
    IN  IF item_text = "" THEN st
        ELSE IF st.current_h4 = "" /\ st.current_h3 = "" THEN st
        ELSE IF section_path \in RECOGNIZED_SECTIONS
        THEN [st EXCEPT !.result[section_path] =
                  Append(@, [id |-> <<"slug", item_text>>, description |-> item_text])]
        ELSE st

\* one turn of `for line in lines`
ParseLine(st, line) ==
    IF line.head \in {"## ", "### ", "#### "} THEN Heading(st, line)
    ELSE IF line.head = "- [ ]" THEN ChecklistLine(st, line)
    ELSE st

InitParse ==
    /\ OthersIdle
    /\ call = [fn |-> "parse", pc |-> "reading", lines |-> <<>>, st |-> ParseStart]

\* the loop reads the next line of the document
ReadLine ==
    /\ call.fn = "parse" /\ call.pc = "reading"
    /\ Len(call.lines) < MaxLines
    /\ \E line \in Lines :
          call' = [call EXCEPT !.lines = Append(@, line), !.st = ParseLine(@, line)]
    /\ OthersUnchanged

\* the document ends and the result is returned
ParseReturn ==
    /\ call.fn = "parse" /\ call.pc = "reading"
    /\ call' = [call EXCEPT !.pc = "returned"]
    /\ OthersUnchanged

NextParse == ReadLine \/ ParseReturn

SpecParse == InitParse /\ [][NextParse]_vars

\* ---- C18 ----

\* the last line before line i that starts with marker h, 0 if there is none
LastBefore(h, i) ==
    LET S == {j \in 1..(i - 1) : call.lines[j].head = h}
    IN  IF S = {} THEN 0 ELSE CHOOSE j \in S : \A k \in S : k <= j

\* the name the heading at line j gives, "" for no heading or no name
NameAt(j) == IF j = 0 \/ call.lines[j].tick = None THEN "" ELSE call.lines[j].tick

\* the names active at line i: an H3 counts if no H2 follows it, an H4 if
\* neither an H2 nor an H3 follows it
ActiveH2(i) == NameAt(LastBefore("## ", i))

ActiveH3(i) ==
    IF LastBefore("### ", i) > LastBefore("## ", i) THEN NameAt(LastBefore("### ", i)) ELSE ""

ActiveH4(i) ==
    IF /\ LastBefore("#### ", i) > LastBefore("## ", i)
       /\ LastBefore("#### ", i) > LastBefore("### ", i)
    THEN NameAt(LastBefore("#### ", i)) ELSE ""

\* the path of the names active at line i, None with neither an H3 nor an H4
ActivePath(i) ==
    IF ActiveH4(i) # "" THEN ActiveH2(i) \o "." \o ActiveH3(i) \o "." \o ActiveH4(i)
    ELSE IF ActiveH3(i) # "" THEN ActiveH2(i) \o "." \o ActiveH3(i)
    ELSE None

\* the checkbox lines with a text
ItemLines == {i \in DOMAIN call.lines : call.lines[i].head = "- [ ]" /\ call.lines[i].text # ""}

\* the nearest heading above line i has no backticked name
UnderNamelessHeading(i) ==
    LET S == {j \in 1..(i - 1) : call.lines[j].head \in {"## ", "### ", "#### "}}
    IN  S # {} /\ call.lines[CHOOSE j \in S : \A k \in S : k <= j].tick = None

\* the descriptions of the lines of I, in document order
RECURSIVE InOrder(_)
InOrder(I) ==
    IF I = {} THEN <<>>
    ELSE LET i == CHOOSE j \in I : \A k \in I : j <= k
         IN  <<call.lines[i].text>> \o InOrder(I \ {i})

Descriptions(items) == [k \in DOMAIN items |-> items[k].description]

\* C18 (as stated): each checkbox line with a text is appended, in document
\* order, to the section of its active path if and only if that path is
\* recognized, and the items under a heading without a backticked name are
\* discarded.
C18_Original_NamelessHeadingDiscards ==
    call.fn = "parse" =>
        \A section \in RECOGNIZED_SECTIONS :
            Descriptions(call.st.result[section]) =
                InOrder({i \in ItemLines : ActivePath(i) = section /\ ~UnderNamelessHeading(i)})

\* C18 (amended): each checkbox line with a text is appended, in document
\* order, to the section of its active path if and only if that path is
\* recognized; an H2 or H3 without a backticked name leaves no recognized
\* path, an H4 without one leaves the path of the active H2 and H3.
C18_ItemsFollowActivePath ==
    call.fn = "parse" =>
        /\ DOMAIN call.st.result = RECOGNIZED_SECTIONS
        /\ \A section \in RECOGNIZED_SECTIONS :
              Descriptions(call.st.result[section]) =
                  InOrder({i \in ItemLines : ActivePath(i) = section})

\* an item under an H4 without a name is kept in the section of the H2 and H3
C18_Witness ==
    /\ call.fn = "parse" /\ call.pc = "returned"
    /\ Len(call.lines) = 4
    /\ call.lines[1] = Line("## ", "data_sources", "", "")
    /\ call.lines[2] = Line("### ", "tables", "", "")
    /\ call.lines[3] = Line("#### ", None, "", "")
    /\ call.lines[4] = Line("- [ ]", None, "**[P]**", "a")
    /\ Descriptions(call.st.result["data_sources.tables"]) = <<"a">>

(***************************************************************************)
(* SpecJson: parse_json_from_llm_response on the text of a reply.  A text  *)
(* is a sequence of tokens: braces, commas, blanks, newlines, fences, a    *)
(* word of prose, keys with their colon, a number and a string.            *)
(***************************************************************************)
MaxProse == 1

NL == "\n"

SP == " "

\* a run of three backticks
FENCE == "<fence>"

\* three backticks and the word json
FENCE_JSON == "<fence>json"

WORD == "Here"

KEY_A == "\"a\":"

KEY_B == "\"b\":"

STR_S == "\"s\""

NUMBER == "1"

IsWs(x) == x \in {SP, NL}

\* tokens that start with a double quote
Quoted == {STR_S, KEY_A, KEY_B}

\* the first index from i on that holds no whitespace
RECURSIVE SkipWs(_, _)
SkipWs(t, i) == IF i <= Len(t) /\ IsWs(t[i]) THEN SkipWs(t, i + 1) ELSE i

\* t[i:] as a sequence
From(t, i) == [k \in 1..(Len(t) - i + 1) |-> t[k + i - 1]]

\* content.strip()
RECURSIVE StripText(_)
StripText(t) ==
    IF t = <<>> THEN t
    ELSE IF IsWs(t[1]) THEN StripText(Tail(t))
    ELSE IF IsWs(t[Len(t)]) THEN StripText(SubSeq(t, 1, Len(t) - 1))
    ELSE t

\* ---- json.loads ----

Parsed(val, next) == [ok |-> TRUE, val |-> val, next |-> next]

NoParse == [ok |-> FALSE]

\* json.JSONDecodeError raised for the document doc
JSONDecodeError(doc) == [kind |-> "error", error |-> "JSONDecodeError", doc |-> doc]

RECURSIVE ParseValue(_, _)
RECURSIVE ParseMembers(_, _, _)
\* a JSON value starting at token i
ParseValue(t, i) ==
    IF i > Len(t) THEN NoParse
    ELSE IF t[i] = NUMBER THEN Parsed(Num(1), i + 1)
    ELSE IF t[i] = STR_S THEN Parsed(Str("s"), i + 1)
    ELSE IF t[i] = "{"
    THEN LET j == SkipWs(t, i + 1)
         IN  IF j <= Len(t) /\ t[j] = "}" THEN Parsed(EmptyDict, j + 1)
             ELSE ParseMembers(t, j, <<>>)
    ELSE NoParse

\* the members of an object from the key at token i on; a later key
\* replaces an earlier equal one
ParseMembers(t, i, acc) ==
    IF i > Len(t) \/ t[i] \notin {KEY_A, KEY_B} THEN NoParse
    ELSE LET key == IF t[i] = KEY_A THEN "a" ELSE "b"
             v == ParseValue(t, SkipWs(t, i + 1))
         IN  IF ~v.ok THEN NoParse
             ELSE LET j == SkipWs(t, v.next)
                      d == [k \in DOMAIN acc \cup {key} |->
                               IF k = key THEN v.val ELSE acc[k]]
                  IN  IF j > Len(t) THEN NoParse
                      ELSE IF t[j] = "}" THEN Parsed(Dict(d), j + 1)
                      ELSE IF t[j] = "," THEN ParseMembers(t, SkipWs(t, j + 1), d)
                      ELSE NoParse

\* json.loads(t): the value, or the decode error of t
json_loads(t) ==
    LET v == ParseValue(t, SkipWs(t, 1))
    IN  IF v.ok /\ SkipWs(t, v.next) = Len(t) + 1 THEN v.val ELSE JSONDecodeError(t)

\* ---- the fence and the braces ----

\* content.split("\n")
RECURSIVE SplitLines(_)
SplitLines(t) ==
    IF \A i \in DOMAIN t : t[i] # NL THEN <<t>>
    ELSE LET i == CHOOSE j \in DOMAIN t : t[j] = NL /\ \A k \in 1..(j - 1) : t[k] # NL
         IN  <<SubSeq(t, 1, i - 1)>> \o SplitLines(From(t, i + 1))

\* "\n".join(lines)
RECURSIVE JoinLines(_)
JoinLines(lines) ==
    IF lines = <<>> THEN <<>>
    ELSE IF Len(lines) = 1 THEN lines[1]
    ELSE lines[1] \o <<NL>> \o JoinLines(Tail(lines))

\* the body of a fenced text: the lines after the first, up to the last
\* line that is a closing fence
Unfence(t) ==
    LET lines == SplitLines(t)
        closing == {i \in 2..Len(lines) : StripText(lines[i]) = <<FENCE>>}
        end_idx == IF closing = {} THEN Len(lines) + 1
                   ELSE CHOOSE i \in closing : \A k \in closing : k <= i
    IN  JoinLines(SubSeq(lines, 2, end_idx - 1))

\* the index after the brace that closes the one at json_start, 0 if none
RECURSIVE MatchingBrace(_, _, _)
MatchingBrace(t, i, brace_count) ==
    IF i > Len(t) THEN 0
    ELSE IF t[i] = "{" THEN MatchingBrace(t, i + 1, brace_count + 1)
    ELSE IF t[i] = "}"
    THEN IF brace_count = 1 THEN i + 1 ELSE MatchingBrace(t, i + 1, brace_count - 1)
    ELSE MatchingBrace(t, i + 1, brace_count)

\* the balanced substring from the first brace of a text that does not
\* start with one
Balanced(t) ==
    IF t # <<>> /\ t[1] = "{" THEN t
    ELSE LET found == {i \in DOMAIN t : t[i] = "{"}
         IN  IF found = {} THEN t
             ELSE LET json_start == CHOOSE i \in found : \A k \in found : i <= k
                      json_end == MatchingBrace(t, json_start, 0)
                  IN  IF json_end = 0 THEN t ELSE SubSeq(t, json_start, json_end - 1)

\* the content handed to json.loads
Extracted(content) ==
    LET stripped == StripText(content)
    IN  IF stripped # <<>> /\ stripped[1] \in {FENCE, FENCE_JSON}
        THEN Balanced(Unfence(stripped))
        ELSE Balanced(stripped)

\* ---- _repair_json ----

\* re.sub(r",\s*([}\]])", r"\1", t)
RECURSIVE DropTrailingCommas(_, _)
DropTrailingCommas(t, i) ==
    IF i > Len(t) THEN <<>>
    ELSE LET j == SkipWs(t, i + 1)
         IN  IF t[i] = "," /\ j <= Len(t) /\ t[j] = "}"
             THEN DropTrailingCommas(t, j)
             ELSE <<t[i]>> \o DropTrailingCommas(t, i + 1)

\* re.sub of a token of Left, whitespace and a token of Right by the first,
\* a comma, sep and the second; the whitespace has at least min_ws tokens
\* and, if need_nl, a newline
RECURSIVE InsertCommas(_, _, _, _, _, _, _)
InsertCommas(t, i, Left, Right, min_ws, need_nl, sep) ==
    IF i > Len(t) THEN <<>>
    ELSE LET j == SkipWs(t, i + 1)
         IN  IF /\ t[i] \in Left /\ j <= Len(t) /\ t[j] \in Right
                /\ j - (i + 1) >= min_ws
                /\ (need_nl => \E k \in (i + 1)..(j - 1) : t[k] = NL)
             THEN <<t[i], ",", sep>> \o InsertCommas(t, j, Left, Right, min_ws, need_nl, sep)
             ELSE <<t[i]>> \o InsertCommas(t, i + 1, Left, Right, min_ws, need_nl, sep)

_repair_json(content) ==
    LET r1 == DropTrailingCommas(content, 1)
        r2 == InsertCommas(r1, 1, {STR_S}, {"{"}, 0, FALSE, NL)
        r3 == InsertCommas(r2, 1, {"}"}, {"{"}, 0, FALSE, NL)
        r4 == InsertCommas(r3, 1, {STR_S}, Quoted, 1, TRUE, NL)
        r5 == InsertCommas(r4, 1, {STR_S}, Quoted, 1, FALSE, SP)
        r6 == InsertCommas(r5, 1, {"}"}, Quoted, 1, TRUE, NL)
        r7 == InsertCommas(r6, 1, {"}"}, Quoted, 1, FALSE, SP)
    IN  InsertCommas(r7, 1, {NUMBER}, Quoted, 1, TRUE, NL)

\* raising the decode error of the repaired text
RaisesSecond(original, second) == second

\* `raise e` in the handler of the second decode error
Reraised(original, second) == original

\* ---- the replies ----

\* well-formed objects
Objects ==
    {<<"{", "}">>,
     <<"{", KEY_A, NUMBER, "}">>,
     <<"{", KEY_A, STR_S, ",", SP, KEY_B, NUMBER, "}">>,
     <<"{", KEY_A, "{", KEY_B, NUMBER, "}", "}">>,
     <<"{", KEY_A, "{", "}", ",", SP, KEY_B, NUMBER, "}">>,
     <<"{", NL, KEY_A, NUMBER, ",", NL, KEY_B, STR_S, NL, "}">>}

\* k words of prose
Prose(k) == [i \in 1..(2 * k - 1) |-> IF i % 2 = 1 THEN WORD ELSE SP]

\* a reply: leading prose, a fence that may lack its closing line, the
\* object, trailing prose
Wrap(lead, fence, closed, trail, obj) ==
    (IF lead = 0 THEN <<>> ELSE Prose(lead) \o <<NL>>)
    \o (IF fence = "" THEN <<>> ELSE <<fence, NL>>)
    \o obj
    \o (IF fence # "" /\ closed THEN <<NL, FENCE>> ELSE <<>>)
    \o (IF trail = 0 THEN <<>> ELSE <<NL>> \o Prose(trail))

\* the texts of S with one token dropped or one comma added
Damage(S) ==
    UNION {{SubSeq(o, 1, i - 1) \o SubSeq(o, i + 1, Len(o)) : i \in 1..Len(o)}
           \cup {SubSeq(o, 1, i) \o <<",">> \o SubSeq(o, i + 1, Len(o)) : i \in 1..(Len(o) - 1)}
           : o \in S}

\* objects damaged once or twice
Damaged == Damage(Objects) \cup Damage(Damage(Objects))

\* texts that are a JSON value but no object
Scalars == {<<NUMBER>>, <<STR_S>>}

NewCall(content, obj) ==
    [fn |-> "parse_json", pc |-> "called", content |-> content, object |-> obj,
     extracted |-> <<>>, repaired |-> <<>>, repairs |-> 0,
     first |-> Null, out |-> Null]

InitJson ==
    /\ OthersIdle
    /\ \/ \E lead \in 0..MaxProse, trail \in 0..MaxProse, obj \in Objects,
             fence \in {"", FENCE, FENCE_JSON}, closed \in BOOLEAN :
             call = NewCall(Wrap(lead, fence, closed, trail, obj), obj)
       \/ \E t \in Damaged \cup Scalars, fence \in {"", FENCE_JSON} :
             call = NewCall(Wrap(0, fence, TRUE, 0, t), <<>>)

\* strip, fence and brace handling; ValueError on nothing left
ExtractContent ==
    /\ call.fn = "parse_json" /\ call.pc = "called"
    /\ call' = IF Extracted(call.content) = <<>>
               THEN [call EXCEPT !.pc = "raised", !.out = Raise("ValueError")]
               ELSE [call EXCEPT !.pc = "extracted", !.extracted = Extracted(call.content)]
    /\ OthersUnchanged

\* try: return json.loads(content)
StrictParse ==
    /\ call.fn = "parse_json" /\ call.pc = "extracted"
    /\ call' = IF IsError(json_loads(call.extracted))
               THEN [call EXCEPT !.pc = "failed", !.first = json_loads(call.extracted)]
               ELSE [call EXCEPT !.pc = "returned", !.out = json_loads(call.extracted)]
    /\ OthersUnchanged

\* repaired = _repair_json(content)
RepairPass ==
    /\ call.fn = "parse_json" /\ call.pc = "failed"
    /\ call' = [call EXCEPT !.pc = "repaired", !.repaired = _repair_json(call.extracted),
                            !.repairs = @ + 1]
    /\ OthersUnchanged

\* json.loads(repaired): its value, or the first error raised again
ParseRepaired ==
    /\ call.fn = "parse_json" /\ call.pc = "repaired"
    /\ call' = IF IsError(json_loads(call.repaired))
               THEN [call EXCEPT !.pc = "raised",
                                 !.out = Reraised(call.first, json_loads(call.repaired))]
               ELSE [call EXCEPT !.pc = "returned", !.out = json_loads(call.repaired)]
    /\ OthersUnchanged

NextJson == ExtractContent \/ StrictParse \/ RepairPass \/ ParseRepaired

SpecJson == InitJson /\ [][NextJson]_vars

JsonDone == call.fn = "parse_json" /\ call.pc \in {"returned", "raised"}

\* C19: a reply made of optional leading prose, an optional fence whose
\* closing line may be missing, one well-formed object and optional trailing
\* prose parses to that object.
C19_WrappedObjectReturned ==
    (JsonDone /\ call.object # <<>>) =>
        (call.pc = "returned" /\ call.out = json_loads(call.object))

\* C20: the extracted content is parsed strictly first; the repair pass
\* runs only after that parse failed, and once; a repaired text that parses
\* gives the value returned, one that does not makes the call raise the
\* decode error of the first attempt; content that parses strictly is
\* returned as it parses, never repaired.
C20_StrictFirstRepairOnce ==
    call.fn = "parse_json" =>
        /\ call.repairs <= 1
        /\ call.repairs = 1 => IsError(json_loads(call.extracted))
        /\ (call.pc \in {"returned", "failed", "repaired"}
            /\ ~IsError(json_loads(call.extracted))) =>
               (call.pc = "returned" /\ call.repairs = 0
                /\ call.out = json_loads(call.extracted))
        /\ (call.pc = "returned" /\ call.repairs = 1) =>
               (~IsError(call.out) /\ call.out = json_loads(call.repaired))
        /\ (call.pc = "raised" /\ call.repairs = 1) =>
               (IsError(json_loads(call.repaired))
                /\ call.out = JSONDecodeError(call.extracted))

\* the repair pass rewrote the text, the rewritten text did not parse, and
\* the error raised is the one of the text before the repair
C20_Witness ==
    /\ call.fn = "parse_json" /\ call.pc = "raised" /\ call.repairs = 1
    /\ call.repaired # call.extracted
    /\ json_loads(call.repaired) = JSONDecodeError(call.repaired)
    /\ call.out = JSONDecodeError(call.extracted)

\* C21: whenever parse_json_from_llm_response returns, the value returned
\* is a mapping.
C21_ReturnsMapping ==
    (call.fn = "parse_json" /\ call.pc = "returned") => IsDict(call.out)

(***************************************************************************)
(* SpecAll: the /analyze/all handler on one request                        *)
(***************************************************************************)
MaxRequest == 2

\* a name a request may carry that is no section of SECTIONS
OtherSection == <<"section", 0>>

\* one element of request.sections: its name and whether it carries data
RequestSections ==
    [name : {SECTIONS[i] : i \in 1..NumSections} \cup {OtherSection},
     data : {"data", None}]

\* full_space: for each section of SECTIONS its data, None if missing
FullSpaceValues == [1..NumSections -> {"data", None}]

\* {name for name, data in all_sections if data is not None}
configured_section_names(full_space) ==
    {SECTIONS[i] : i \in {k \in 1..NumSections : full_space[k] # None}}

\* {s["name"] for s in request.sections}
analyzed_section_names(sections) == {sections[k].name : k \in DOMAIN sections}

\* a full analysis taken to be one that requested configured sections only
RequestedOnlyConfigured(configured, analyzed) == analyzed \subseteq configured

\* configured_section_names <= analyzed_section_names
is_full_analysis(configured, analyzed) == configured \subseteq analyzed

InitAll ==
    /\ OthersIdle
    /\ \E sections \in SeqsUpTo(RequestSections, MaxRequest), full_space \in FullSpaceValues :
          call = [fn |-> "analyze_all", pc |-> "called", sections |-> sections,
                  full_space |-> full_space, session |-> FALSE, analyses |-> <<>>,
                  synth_calls |-> 0, synthesis |-> None, is_full |-> None]

\* get_analyzer(), start_session(), detect_style(full_space)
AllStart ==
    /\ call.fn = "analyze_all" /\ call.pc = "called"
    /\ call' = [call EXCEPT !.pc = "loop", !.session = TRUE]
    /\ OthersUnchanged

\* one turn of `for section in request.sections`: analyze_section returns
\* its analysis, or (for a section with data) its LLM call raises and the
\* finally block ends the session
AllAnalyze ==
    /\ call.fn = "analyze_all" /\ call.pc = "loop"
    /\ Len(call.analyses) < Len(call.sections)
    /\ LET section == call.sections[Len(call.analyses) + 1]
       IN  \/ call' = [call EXCEPT !.analyses = Append(@, section.name)]
           \/ /\ section.data # None
              /\ call' = [call EXCEPT !.pc = "raised", !.session = FALSE]
    /\ OthersUnchanged

\* after the loop: is_full_analysis is computed; synthesize_analysis is
\* called if it holds and returns or raises; the finally block ends the
\* session
AllSynthesize ==
    /\ call.fn = "analyze_all" /\ call.pc = "loop"
    /\ Len(call.analyses) = Len(call.sections)
    /\ LET full == is_full_analysis(configured_section_names(call.full_space),
                                    analyzed_section_names(call.sections))
       IN  IF full
           THEN \/ call' = [call EXCEPT !.pc = "returned", !.session = FALSE,
                                        !.is_full = "true",
                                        !.synth_calls = @ + 1, !.synthesis = "synthesis"]
                \/ call' = [call EXCEPT !.pc = "raised", !.session = FALSE,
                                        !.is_full = "true", !.synth_calls = @ + 1]
           ELSE call' = [call EXCEPT !.pc = "returned", !.session = FALSE,
                                     !.is_full = "false"]
    /\ OthersUnchanged

NextAll == AllStart \/ AllAnalyze \/ AllSynthesize

SpecAll == InitAll /\ [][NextAll]_vars

\* the sections of full_space that have data all are among the requested
ConfiguredAllRequested ==
    \A i \in 1..NumSections :
        call.full_space[i] # None =>
            \E k \in DOMAIN call.sections : call.sections[k].name = <<"section", i>>

RequestedNames == [k \in DOMAIN call.sections |-> call.sections[k].name]

NumStreams == 2

\* the heartbeats recorded per request; later ones are emitted but not
\* counted any more
MaxBeats == 2

Streams == 1..NumStreams

\* what generate_optimizations can come to: its result, or an exception;
\* TimeoutError is the builtin raised by a client that gave up retrying
WorkOutcomes == {"returned", "Exception", "TimeoutError"}

NewStream ==
    [pc |-> "called", work |-> "none", started |-> 0, timeouts |-> 0,
     processing |-> 0, terminal |-> <<>>]

\* one more, up to the number recorded
Counted(n) == IF n < MaxBeats THEN n + 1 ELSE n

\* `except asyncio.TimeoutError` catches exception class e: always the
\* timeout of wait_for, and the builtin TimeoutError where the two are the
\* same class (Python 3.11 and later)
CatchesAsTimeout(e, alias) == e = "asyncio.TimeoutError" \/ (alias /\ e = "TimeoutError")

\* alias: whether asyncio.TimeoutError is the builtin TimeoutError in the
\* interpreter at hand
InitOptimize ==
    /\ OthersIdle
    /\ \E alias \in BOOLEAN :
          call = [fn |-> "optimize", alias |-> alias, stream |-> [r \in Streams |-> NewStream]]

\* future = loop.run_in_executor(executor, run_optimizer)
OptStart(r) ==
    /\ call.fn = "optimize" /\ call.stream[r].pc = "called"
    /\ call' = [call EXCEPT !.stream[r] =
                    [@ EXCEPT !.pc = "waiting", !.work = "running", !.started = @ + 1]]
    /\ OthersUnchanged

\* the worker thread: generate_optimizations returns or raises
WorkFinish(r) ==
    /\ call.fn = "optimize" /\ call.stream[r].work = "running"
    /\ \E outcome \in WorkOutcomes :
          call' = [call EXCEPT !.stream[r] = [@ EXCEPT !.work = outcome]]
    /\ OthersUnchanged

\* wait_for times out while the work runs: the shield keeps the future, and
\* one processing event is yielded
Heartbeat(r) ==
    /\ call.fn = "optimize" /\ call.stream[r].pc = "waiting"
    /\ call.stream[r].work = "running"
    /\ call.stream[r].timeouts < MaxBeats
    /\ CatchesAsTimeout("asyncio.TimeoutError", call.alias)
    /\ call' = [call EXCEPT !.stream[r] =
                    [@ EXCEPT !.timeouts = @ + 1, !.processing = Counted(@)]]
    /\ OthersUnchanged

\* wait_for on the finished future: its result gives the complete event,
\* its exception the processing event if caught as a timeout and the error
\* event otherwise
AwaitDone(r) ==
    /\ call.fn = "optimize" /\ call.stream[r].pc = "waiting"
    /\ call.stream[r].work \in WorkOutcomes
    /\ LET st == call.stream[r]
       IN  call' = [call EXCEPT !.stream[r] =
                IF st.work = "returned"
                THEN [st EXCEPT !.pc = "ended", !.terminal = Append(@, "complete")]
                ELSE IF CatchesAsTimeout(st.work, call.alias)
                THEN [st EXCEPT !.processing = Counted(@)]
                ELSE [st EXCEPT !.pc = "ended", !.terminal = Append(@, "error")]]
    /\ OthersUnchanged

NextOptimize ==
    \E r \in Streams : OptStart(r) \/ WorkFinish(r) \/ Heartbeat(r) \/ AwaitDone(r)

SpecOptimize == InitOptimize /\ [][NextOptimize]_vars

\* the event loop keeps running the generators and the worker threads run
SpecOptimizeFair ==
    /\ SpecOptimize
    /\ \A r \in Streams :
          /\ WF_vars(OptStart(r)) /\ WF_vars(WorkFinish(r))
          /\ WF_vars(AwaitDone(r))

\* C23: in the /optimize stream the work is started once per request, each
\* processing event comes from one heartbeat timeout, the stream ends with
\* one terminal event - complete if the work returned, error if it raised -
\* and once the work has finished the terminal event is eventually emitted.
C23_HeartbeatsThenOneTerminalEvent ==
    /\ [](call.fn = "optimize" =>
            \A r \in Streams :
                LET st == call.stream[r]
                IN  /\ st.started <= 1
                    /\ st.pc # "called" => st.started = 1
                    /\ st.processing = st.timeouts
                    /\ Len(st.terminal) <= 1
                    /\ st.pc = "ended" <=> Len(st.terminal) = 1
                    /\ st.terminal = <<"complete">> => st.work = "returned"
                    /\ st.terminal = <<"error">> => st.work \in {"Exception", "TimeoutError"})
    /\ \A r \in Streams :
          (call.fn = "optimize" /\ call.stream[r].work \in WorkOutcomes)
              ~> (call.stream[r].pc = "ended")

(***************************************************************************)
(* SpecSave: save_analysis_output.  A name is a sequence of characters     *)
(* (".." stands for two dots), a path a sequence of names.                 *)
(***************************************************************************)
MaxIdLen == 5

\* the characters an id is made of here
IdChars == {"a", "..", "/", "\\", "?"}

\* the characters of [a-zA-Z0-9\-_.]
AllowedChars == {"a", "..", "_", "-", "."}

OUTPUT_DIR == <<<<"app">>, <<"output">>>>

\* where a symbolic link planted in OUTPUT_DIR leads
Outside == <<<<"etc">>, <<"target">>>>

\* a sanitizer that keeps the name as it is
KeepName(name) == name

\* re.sub(r"[^a-zA-Z0-9\-_.]", "_", name)
_sanitize_filename(name) ==
    [i \in DOMAIN name |-> IF name[i] \in AllowedChars THEN name[i] ELSE "_"]

\* the names between the slashes of a relative path string
RECURSIVE PathParts(_)
PathParts(t) ==
    IF \A i \in DOMAIN t : t[i] # "/" THEN (IF t = <<>> THEN <<>> ELSE <<t>>)
    ELSE LET i == CHOOSE j \in DOMAIN t : t[j] = "/" /\ \A k \in 1..(j - 1) : t[k] # "/"
         IN  (IF i = 1 THEN <<>> ELSE <<SubSeq(t, 1, i - 1)>>)
             \o PathParts(SubSeq(t, i + 1, Len(t)))

\* path.resolve() on names only: ".." leaves the directory reached so far
RECURSIVE Normal(_, _)
Normal(parts, acc) ==
    IF parts = <<>> THEN acc
    ELSE IF Head(parts) = <<"..">>
    THEN Normal(Tail(parts), IF acc = <<>> THEN acc ELSE SubSeq(acc, 1, Len(acc) - 1))
    ELSE Normal(Tail(parts), Append(acc, Head(parts)))

\* filepath.resolve(): a symbolic link at the path is followed
resolve(path, is_link) == IF is_link THEN Outside ELSE Normal(path, <<>>)

\* path.is_relative_to(OUTPUT_DIR.resolve())
is_relative_to(path, dir) == Len(dir) <= Len(path) /\ SubSeq(path, 1, Len(dir)) = dir

InitSave ==
    /\ OthersIdle
    /\ \E id \in SeqsUpTo(IdChars, MaxIdLen), is_link \in BOOLEAN :
          call = [fn |-> "save", pc |-> "called", genie_space_id |-> id,
                  is_link |-> is_link, filepath |-> <<>>, checked |-> FALSE,
                  written |-> {}]

\* mkdir, safe_id and filepath = OUTPUT_DIR / f"analysis_{safe_id}.md"
SaveBuildPath ==
    /\ call.fn = "save" /\ call.pc = "called"
    /\ call' = [call EXCEPT !.pc = "built",
                   !.filepath = OUTPUT_DIR \o
                       PathParts(<<"analysis_">> \o _sanitize_filename(call.genie_space_id)
                                 \o <<".md">>)]
    /\ OthersUnchanged

\* the containment check: ValueError for a path that resolves outside
SaveCheck ==
    /\ call.fn = "save" /\ call.pc = "built"
    /\ call' = IF is_relative_to(resolve(call.filepath, call.is_link), OUTPUT_DIR)
               THEN [call EXCEPT !.pc = "checked", !.checked = TRUE]
               ELSE [call EXCEPT !.pc = "raised"]
    /\ OthersUnchanged

\* format_analysis_as_markdown, which may raise, then filepath.write_text
SaveWrite ==
    /\ call.fn = "save" /\ call.pc = "checked"
    /\ \/ call' = [call EXCEPT !.pc = "returned",
                      !.written = @ \cup {resolve(call.filepath, call.is_link)}]
       \/ call' = [call EXCEPT !.pc = "raised"]
    /\ OthersUnchanged

NextSave == SaveBuildPath \/ SaveCheck \/ SaveWrite

SpecSave == InitSave /\ [][NextSave]_vars

\* the file name the claim expects for the id
ExpectedFileName ==
    <<"analysis_">>
    \o [i \in DOMAIN call.genie_space_id |->
           IF call.genie_space_id[i] \in {"/", "\\", "?"} THEN "_" ELSE call.genie_space_id[i]]
    \o <<".md">>

\* C24: for every genie_space_id save_analysis_output writes exactly one
\* file, inside OUTPUT_DIR and named after the id with every character
\* outside [a-zA-Z0-9-_.] replaced by "_", or raises without writing; the
\* containment check comes before the write.
C24_WritesInsideOrRaises ==
    call.fn = "save" =>
        /\ call.pc = "returned" => Cardinality(call.written) = 1
        /\ call.pc # "returned" => call.written = {}
        /\ \A path \in call.written :
              /\ call.checked
              /\ Len(path) = Len(OUTPUT_DIR) + 1
              /\ SubSeq(path, 1, Len(OUTPUT_DIR)) = OUTPUT_DIR
              /\ path[Len(path)] = ExpectedFileName

\* an id that climbs out of two directories was written as one file of
\* OUTPUT_DIR
C24_Witness ==
    /\ call.fn = "save" /\ call.pc = "returned"
    /\ call.genie_space_id = <<"/", "..", "/", "..", "/">>
    /\ call.written = {OUTPUT_DIR \o <<<<"analysis_", "_", "..", "_", "..", "_", ".md">>>>}

\* the column configs of the tables of a list, one after the other
RECURSIVE AllColumns(_)
AllColumns(tables) ==
    IF tables = <<>> THEN <<>>
    ELSE Get(Head(tables).d, "column_configs", List(<<>>)).l \o AllColumns(Tail(tables))

\* C25: check_columns_excluded on a list of tables passes whenever the
\* tables have at most 5 column configs in all, and with more than 5 passes
\* if and only if a column has exclude set.
C25_SmallTablesPass ==
    (Checked /\ call.name = "check_columns_excluded" /\ IsList(call.data)
     /\ ~IsError(call.item)) =>
        LET cols == AllColumns(call.data.l)
            excluded == \E i \in DOMAIN cols : Truthy(Get(cols[i].d, "exclude", Bool(FALSE)))
        IN  /\ Len(cols) <= 5 => call.item.passed
            /\ Len(cols) > 5 => (call.item.passed <=> excluded)

\* the same with the tables holding between 1 and 5 column configs
C25_NonEmptySmallTablesPass ==
    (Checked /\ call.name = "check_columns_excluded" /\ IsList(call.data)
     /\ ~IsError(call.item)) =>
        LET cols == AllColumns(call.data.l)
            excluded == \E i \in DOMAIN cols : Truthy(Get(cols[i].d, "exclude", Bool(FALSE)))
        IN  /\ Len(cols) \in 1..5 => call.item.passed
            /\ Len(cols) = 0 => ~call.item.passed
            /\ Len(cols) > 5 => (call.item.passed <=> excluded)

\* the style at position i of ConfigStyles scores s on the tree of the call
ScoreOf(i) == Scores(Indicators(call.tree))[i]

BestScore == CHOOSE b \in {ScoreOf(i) : i \in DOMAIN ConfigStyles} :
                \A i \in DOMAIN ConfigStyles : ScoreOf(i) <= b

\* the second entry of the scores in descending order
RunnerUp ==
    IF Cardinality({i \in DOMAIN ConfigStyles : ScoreOf(i) = BestScore}) > 1
    THEN BestScore
    ELSE CHOOSE b \in {ScoreOf(i) : i \in DOMAIN ConfigStyles} \ {BestScore} :
            \A i \in DOMAIN ConfigStyles : ScoreOf(i) # BestScore => ScoreOf(i) <= b

\* min(1, 0.7 * best + 0.3 * (best - second best)), in thousandths
Weighted ==
    LET w == 7 * BestScore + 3 * (BestScore - RunnerUp)
    IN  IF w > 1000 THEN 1000 ELSE w

StrongPattern ==
    LET ind == Indicators(call.tree)
    IN  \/ ind.metric_views_count >= 3
        \/ ind.tables_count >= 3
        \/ ind.example_sqls_count >= 3
        \/ ind.has_rich_instructions

\* C26: detect_style returns a style holding the maximum score, with
\* confidence min(1, 0.7 * best + 0.3 * (best - second best)) rounded to two
\* decimals, unless the maximum is below 0.3, when it returns hybrid with
\* confidence exactly 0.3; the confidence lies in 0..1 and minimal-viable is
\* returned only for trees with none of the strong patterns.
C26_BestStyleAndConfidence ==
    StyleCalled =>
        LET r == call.first
        IN  /\ BestScore < 30 => r.detected_style = "hybrid" /\ r.confidence = 30
            /\ BestScore >= 30 =>
                  /\ \E i \in DOMAIN ConfigStyles :
                        ConfigStyles[i] = r.detected_style /\ ScoreOf(i) = BestScore
                  /\ 10 * r.confidence - Weighted \in -5..5
            /\ r.confidence \in 0..100
            /\ r.detected_style = "minimal-viable" => ~StrongPattern

\* detect_style answered a style other than hybrid whose confidence had to
\* be rounded, with a runner-up that scores
C26_Witness ==
    /\ StyleCalled
    /\ BestScore >= 30 /\ RunnerUp > 0 /\ RunnerUp < BestScore
    /\ Weighted % 10 # 0
    /\ call.first.detected_style # "hybrid"

\* detect_style fell back to hybrid because no style scored 0.3
C26_FallbackReached ==
    StyleCalled /\ BestScore < 30 /\ call.first.detected_style = "hybrid"

\* C27: the checklist analyze_section returns for a configured section has
\* exactly one entry per registry item, in registry order, with the
\* registry's id and description, whatever ids the reply's evaluations
\* name, repeat or order.
C27_ChecklistFollowsRegistry ==
    (result.kind = "analysis" /\ section_data = "configured") =>
        /\ Len(result.checklist) = Len(registry)
        /\ \A k \in DOMAIN registry :
              /\ result.checklist[k].id = registry[k].id
              /\ result.checklist[k].description = registry[k].description

\* an analysis of a section of two items or more whose reply evaluates
\* twice an id the registry does not hold, or evaluates the second item
\* before the first
C27_Witness ==
    /\ result.kind = "analysis" /\ section_data = "configured"
    /\ Len(registry) >= 2
    /\ Len(ReplyEvaluations) = 2
    /\ \/ /\ ReplyEvaluations[1].id = ReplyEvaluations[2].id
          /\ \A k \in DOMAIN registry : registry[k].id # ReplyEvaluations[1].id
       \/ /\ ReplyEvaluations[1].id = registry[2].id
          /\ ReplyEvaluations[2].id = registry[1].id

\* the step is an iteration of merge_config's loop whose suggestion failed
FailedApply ==
    /\ merge.pc = "loop"
    /\ merge'.pc = "loop"
    /\ merge'.i = merge.i + 1
    /\ merge'.raised[merge'.i]

\* C28: a suggestion whose application fails leaves the merged tree as it
\* was before that suggestion: no container made on the way and no padding
\* stays behind.
C28_FailedSuggestionHasNoEffect ==
    [][FailedApply => Contents(heap', merge'.merged) = Contents(heap, merge.merged)]_vars

\* the suggested_value the caller gave suggestion k: the string, or an empty
\* mapping of its own
ValueAtCall(k) ==
    IF IsRef(merge.suggestions[k].suggested_value) THEN EmptyDict ELSE Str("new")

\* C29: merge_config leaves the caller's suggestions alone: during the call
\* and at its return every suggested_value equals what it was at the call,
\* also when a later suggestion addresses a location inside a value an
\* earlier suggestion put into the merged tree.
C29_SuggestionsUntouched ==
    merge.pc \in {"called", "loop", "returned"} =>
        \A k \in DOMAIN merge.suggestions :
            Contents(heap, merge.suggestions[k].suggested_value) = ValueAtCall(k)

(***************************************************************************)
(* SpecWizard: the Streamlit wizard of app/app.py.  `call` holds           *)
(* st.session_state; an action is one script run (main) started by a       *)
(* click or by st.rerun(), up to its st.rerun() or its end.                *)
(***************************************************************************)
\* largest number of sections a fetched space configures (a section in the
\* middle has both a Prev and a Next button)
MaxWizardSections == 3

\* the first sections of SECTIONS
WizardSections == [i \in 1..MaxWizardSections |-> <<"section", i>>]

\* init_session_state / reset_session: the defaults, with the page toggle
\* and what the last run rendered
SessionDefaults(show, sidebar) ==
    [fn |-> "wizard",
     phase |-> "input",
     sections_with_data |-> <<>>,
     current_section_idx |-> 0,
     section_analyses |-> <<>>,
     all_sections_analyzed |-> FALSE,
     show_best_practices |-> show,
     sidebar_phase |-> sidebar,
     message |-> "none"]

\* get_sections_with_data(space) for a space that configures the sections
\* numbered in S
get_sections_with_data(S) ==
    LET at(k) == Ith(S, k)
    IN  [k \in 1..Cardinality(S) |-> WizardSections[at(k)]]

\* the analysis analyze_section answers for a section
AnalysisOf(section_name) == [section_name |-> section_name]

\* st.rerun(): the script starts again, so the sidebar is drawn from the
\* state the run left
Rerun(state) == [state EXCEPT !.sidebar_phase = state.phase, !.message = "none"]

\* the main area shows the phase (not the best practices page)
Shows(phase) == call.fn = "wizard" /\ call.phase = phase /\ ~call.show_best_practices

\* the sidebar drew its navigation in the last run and draws it in this one
SidebarDrawn == call.fn = "wizard" /\ call.phase # "input" /\ call.sidebar_phase # "input"

is_reviewing == call.current_section_idx < Len(call.section_analyses)

InitWizard ==
    /\ call = SessionDefaults(FALSE, "input")
    /\ OthersIdle

\* "Fetch Space" with a space id: the space is fetched, or fetching fails
FetchSpaceClick ==
    /\ Shows("input")
    /\ \/ \E S \in SUBSET (1..MaxWizardSections) :
             call' = Rerun([call EXCEPT !.sections_with_data = get_sections_with_data(S),
                                        !.phase = "ingest"])
       \/ call' = [call EXCEPT !.message = "Failed to fetch Genie Space",
                               !.sidebar_phase = call.phase]
    /\ OthersUnchanged

\* "Start Analysis" on the ingest page
StartAnalysisClick ==
    /\ Shows("ingest")
    /\ call' = Rerun([call EXCEPT !.phase = "analysis",
                                  !.current_section_idx = 0,
                                  !.section_analyses = <<>>,
                                  !.all_sections_analyzed = FALSE])
    /\ OthersUnchanged

\* a run of display_analysis_phase on a section not analysed yet:
\* sections[current_idx] raises IndexError when there is no such section;
\* otherwise the section is analysed and appended, or the analysis fails
AnalyzeCurrent ==
    /\ Shows("analysis")
    /\ ~is_reviewing
    /\ IF call.current_section_idx >= Len(call.sections_with_data)
       THEN call' = [call EXCEPT !.message = "IndexError",
                                 !.sidebar_phase = call.phase]
       ELSE \/ LET analyses == Append(call.section_analyses,
                                      AnalysisOf(call.sections_with_data[
                                                    call.current_section_idx + 1]))
               IN  call' = Rerun([call EXCEPT
                          !.section_analyses = analyses,
                          !.all_sections_analyzed =
                              IF Len(analyses) = Len(call.sections_with_data)
                              THEN TRUE ELSE @])
            \/ call' = [call EXCEPT !.message = "Analysis failed",
                                    !.sidebar_phase = call.phase]
    /\ OthersUnchanged

\* the page of an analysed section is on screen
Reviewing ==
    /\ Shows("analysis")
    /\ is_reviewing
    /\ call.current_section_idx < Len(call.sections_with_data)

PrevClick ==
    /\ Reviewing
    /\ call.current_section_idx > 0
    /\ call' = Rerun([call EXCEPT !.current_section_idx = @ - 1])
    /\ OthersUnchanged

NextClick ==
    /\ Reviewing
    /\ call.current_section_idx < Len(call.sections_with_data) - 1
    /\ call' = Rerun([call EXCEPT !.current_section_idx = @ + 1])
    /\ OthersUnchanged

\* "Summary ->" under the last section
SummaryClick ==
    /\ Reviewing
    /\ ~(call.current_section_idx < Len(call.sections_with_data) - 1)
    /\ call.all_sections_analyzed
    /\ call' = Rerun([call EXCEPT !.phase = "summary"])
    /\ OthersUnchanged

\* sidebar "Ingest Preview": no st.rerun(), the rest of the sidebar is drawn
\* with the phase read at the top and the main area shows the ingest page
NavIngestClick ==
    /\ SidebarDrawn
    /\ ~(call.phase = "ingest" /\ ~call.show_best_practices)
    /\ call' = [call EXCEPT !.phase = "ingest", !.show_best_practices = FALSE,
                            !.sidebar_phase = call.phase, !.message = "none"]
    /\ OthersUnchanged

\* section i is a button of the sidebar drawn with phase p
SectionButton(i, p) ==
    /\ ~(p = "analysis" /\ i = call.current_section_idx /\ ~call.show_best_practices)
    /\ i < Len(call.section_analyses)

\* sidebar: a completed section
NavSectionClick ==
    /\ SidebarDrawn
    /\ \E i \in 0..(Len(call.sections_with_data) - 1) :
          /\ SectionButton(i, call.sidebar_phase)
          /\ SectionButton(i, call.phase)
          /\ call' = Rerun([call EXCEPT !.phase = "analysis",
                                        !.current_section_idx = i,
                                        !.show_best_practices = FALSE])
    /\ OthersUnchanged

\* Summary is a button of the sidebar drawn with phase p
SummaryButton(p) ==
    /\ ~(p = "summary" /\ ~call.show_best_practices)
    /\ \/ call.all_sections_analyzed
       \/ Len(call.section_analyses) = Len(call.sections_with_data)

NavSummaryClick ==
    /\ SidebarDrawn
    /\ SummaryButton(call.sidebar_phase)
    /\ SummaryButton(call.phase)
    /\ call' = Rerun([call EXCEPT !.phase = "summary", !.show_best_practices = FALSE])
    /\ OthersUnchanged

\* sidebar "Best Practices" and the page's "Back to Analysis"
BestPracticesClick ==
    /\ SidebarDrawn
    /\ ~call.show_best_practices
    /\ call' = Rerun([call EXCEPT !.show_best_practices = TRUE])
    /\ OthersUnchanged

BackClick ==
    /\ call.fn = "wizard"
    /\ call.show_best_practices
    /\ call' = Rerun([call EXCEPT !.show_best_practices = FALSE])
    /\ OthersUnchanged

\* sidebar "Start Over": reset_session leaves show_best_practices as it is
StartOverClick ==
    /\ SidebarDrawn
    /\ call' = SessionDefaults(call.show_best_practices, "input")
    /\ OthersUnchanged

NextWizard ==
    \/ FetchSpaceClick
    \/ StartAnalysisClick
    \/ AnalyzeCurrent
    \/ PrevClick
    \/ NextClick
    \/ SummaryClick
    \/ NavIngestClick
    \/ NavSectionClick
    \/ NavSummaryClick
    \/ BestPracticesClick
    \/ BackClick
    \/ StartOverClick

SpecWizard == InitWizard /\ [][NextWizard]_vars

\* the i-th stored analysis is the analysis of the i-th section
AnalysesFollowSections ==
    /\ Len(call.section_analyses) <= Len(call.sections_with_data)
    /\ \A i \in DOMAIN call.section_analyses :
          call.section_analyses[i] = AnalysisOf(call.sections_with_data[i])

\* C30: in the wizard, while phase is analysis,
\* 0 <= current_section_idx < len(sections_with_data) and
\* current_section_idx <= len(section_analyses) <= len(sections_with_data);
\* the i-th stored analysis is the analysis of the i-th section; and phase
\* is summary only when every section with data has an analysis.
C30_ShownSectionExists ==
    call.fn = "wizard" =>
        /\ call.phase = "analysis" =>
              /\ 0 <= call.current_section_idx
              /\ call.current_section_idx < Len(call.sections_with_data)
              /\ call.current_section_idx <= Len(call.section_analyses)
              /\ Len(call.section_analyses) <= Len(call.sections_with_data)
        /\ AnalysesFollowSections
        /\ call.phase = "summary" =>
              Len(call.section_analyses) = Len(call.sections_with_data)

\* the same for a space with at least one configured section
C30_ShownSectionExistsWhenConfigured ==
    (call.fn = "wizard" /\ call.sections_with_data # <<>>) => C30_ShownSectionExists

\* the analysis page failed on a section that does not exist
C30_IndexErrorShown ==
    call.fn = "wizard" /\ call.message = "IndexError"

====
